---- MODULE Spec2Model ----
(***************************************************************************)
(* go-store-service: the Collection contract and its two backends          *)
(* (collections/inmemory.py, collections/riak.py).                         *)
(*                                                                         *)
(* Identifiers (store ids, object ids, Riak keys) are Python strings and   *)
(* are modelled as sequences of one-character strings, so that the         *)
(* composite key "%s:%s" and str.partition(':') are computed, not assumed. *)
(* A Python dict is a function whose domain is the set of its keys.        *)
(* An optional value (None or a value) is a sequence of length 0 or 1.     *)
(*                                                                         *)
(* The Riak manager (vumi.persist) is outside the repository: a bucket is  *)
(* modelled as a keyed map on which load, save, delete and all_keys are    *)
(* each one atomic step; index lag and JSON re-encoding are not modelled.  *)
(***************************************************************************)
EXTENDS Integers, Sequences, FiniteSets, TLC

VARIABLES
    backend,    \* which IStoreBackend is under test: "inmemory" or "riak"
    mem,        \* InMemoryCollectionBackend._stores: 'stores' and 'rows' dicts
    riak,       \* the Riak buckets of StoreData and RowData
    uuids,      \* how many uuid4() tokens have been drawn
    calls,      \* the collection operations in flight, per client slot
    reactor,    \* the reactor's zero-delay calls, in callLater order
    last,       \* the outcome delivered last, until the next call is made
    scope,      \* the collections the client obtained from the backend
    url,        \* a path template, the URLSpec made of it and a path matched
    web,        \* the HTTP request being handled and its response
    heap,       \* the Python objects a client and a collection hold by reference
    hist        \* what two concurrent clients were answered, and the writes' order

\* The state of the collections and of the operations on them
collVars == <<backend, mem, riak, uuids, calls, reactor, last, scope>>

vars == <<backend, mem, riak, uuids, calls, reactor, last, scope, url, web,
         heap, hist>>

----------------------------------------------------------------------------
(* Bounds of the model *)

MaxUuids == 2       \* uuid4() tokens that may be drawn
MaxObjects == 2     \* objects held by the backend before create is refused
MaxInflight == 2    \* client slots (operations that may be in flight)

----------------------------------------------------------------------------
(* Values *)

None == <<>>
Some(x) == <<x>>
IsNone(o) == Len(o) = 0
The(o) == o[1]

\* Owner ids, store ids and object ids are strings.
Owners == {<<"o1">>, <<"o2">>}
StoreIds == {<<"s">>, <<"s", ":", "t">>}
GivenIds == {<<"k">>, <<"t", ":", "k">>}

\* JSON objects as posted by a client: dicts from field names to values.
Data == {("foo" :> 1), ("bar" :> 2)}

\* uuid4().hex: a token never drawn before; it contains no ':'.
uuid4(n) == <<"u" \o ToString(n)>>

ObjectIds == GivenIds \cup {uuid4(n) : n \in 1..uuids}

StoreColl(o) == [kind |-> "store", owner |-> o, store |-> <<>>]
RowColl(o, s) == [kind |-> "row", owner |-> o, store |-> s]
NoColl == [kind |-> "none", owner |-> <<>>, store |-> <<>>]
Colls == {StoreColl(o) : o \in Owners}
             \cup {RowColl(o, s) : o \in Owners, s \in StoreIds}

\* The pairs of collections a run works with: the store collections of two
\* owners, the row collections of two stores of one owner, and the row
\* collections of one store id under two owners.
Scopes ==
    {{StoreColl(o) : o \in Owners}}
        \cup {{RowColl(o, s) : s \in StoreIds} : o \in {<<"o1">>}}
        \cup {{RowColl(o, s) : o \in Owners} : s \in {<<"s">>}}

Slots == 1..MaxInflight

----------------------------------------------------------------------------
(* Python dicts *)

EmptyDict == [k \in {} |-> 0]
DictHas(d, k) == k \in DOMAIN d
\* Mutant: the assignment d[k] = v as d.setdefault(k, v).
DictSet_keep(d, k, v) ==
    [x \in (DOMAIN d) \cup {k} |-> IF x \in DOMAIN d THEN d[x] ELSE v]

DictSet(d, k, v) == [x \in (DOMAIN d) \cup {k} |-> IF x = k THEN v ELSE d[x]]
DictPop(d, k) == [x \in (DOMAIN d) \ {k} |-> d[x]]
\* dict.setdefault(k, {}) as the dict it leaves behind, and the value it returns
SetDefault(d, k) == IF DictHas(d, k) THEN d ELSE DictSet(d, k, EmptyDict)
\* The orders in which a dict or a key index may be iterated.
Orders(S) ==
    {q \in [1..Cardinality(S) -> S] :
        \A i, j \in 1..Cardinality(S) : i # j => q[i] # q[j]}

Object(id, data) == [id |-> id, data |-> data]

----------------------------------------------------------------------------
(* collections/inmemory.py *)

\* InMemoryCollectionBackend.get_store_collection / get_row_collection:
\* the backend's _stores after the setdefault of the owner's dict.
InMemoryCollectionBackend_get(m, c) ==
    IF c.kind = "store"
    THEN [m EXCEPT !.stores = SetDefault(m.stores, c.owner)]
    ELSE [m EXCEPT !.rows = SetDefault(m.rows, c.owner)]

\* Mutant: every owner is handed the dict of one owner.
SelfData_one_owner(m, c) ==
    LET o == CHOOSE x \in Owners : TRUE
        m2 == InMemoryCollectionBackend_get(m, [c EXCEPT !.owner = o])
    IN  IF c.kind = "store" THEN m2.stores[o] ELSE m2.rows[o]

\* The dict a collection instance wraps (self._data).
SelfData(m, c) ==
    LET m2 == InMemoryCollectionBackend_get(m, c)
    IN  IF c.kind = "store" THEN m2.stores[c.owner] ELSE m2.rows[c.owner]

\* self._data replaced by d in the backend's _stores.
WithSelfData(m, c, d) ==
    LET m2 == InMemoryCollectionBackend_get(m, c)
    IN  IF c.kind = "store"
        THEN [m2 EXCEPT !.stores[c.owner] = d]
        ELSE [m2 EXCEPT !.rows[c.owner] = d]

_id_to_key(c, object_id) ==
    IF c.kind = "store" THEN object_id ELSE <<c.store, object_id>>

\* InMemoryRowCollection._key_to_id asserts the key's store id.
_key_to_id(c, key) ==
    IF c.kind = "store" THEN key ELSE key[2]

_is_my_key(c, key) ==
    IF c.kind = "store" THEN TRUE ELSE key[1] = c.store

\* Mutant: the id is taken from the data when the data has an 'id' field.
_format_data_from_data(object_id, data) ==
    Object(IF "id" \in DOMAIN data THEN data["id"] ELSE object_id, data)

_format_data(object_id, data) == Object(object_id, data)

_get_data(d, c, object_id) ==
    LET key == _id_to_key(c, object_id)
    IN  IF ~DictHas(d, key) THEN None
        ELSE Some(_format_data(object_id, d[key]))

\* _set_data: the dict after the assignment (the returned object is
\* _format_data of what was stored).
_set_data(d, c, object_id, data) ==
    DictSet(d, _id_to_key(c, object_id), data)

_get_keys(d, c) ==
    {_key_to_id(c, key) : key \in {k \in DOMAIN d : _is_my_key(c, k)}}

----------------------------------------------------------------------------
(* Operations in flight *)

EmptyMem == [stores |-> EmptyDict, rows |-> EmptyDict]
EmptyRiak == [StoreData |-> EmptyDict, RowData |-> EmptyDict]

IdleCall ==
    [pc |-> "idle", op |-> "none", coll |-> NoColl, id |-> None,
     data |-> None, status |-> "none", obj |-> None, keys |-> <<>>,
     objs |-> <<>>, model |-> None, todo |-> <<>>,
     pre |-> [mem |-> EmptyMem, riak |-> EmptyRiak, uuids |-> 0]]

\* A call as made; pre records the stored state it was made on.
NewCall(op, c, idopt, dataopt) ==
    [IdleCall EXCEPT !.op = op, !.coll = c, !.id = idopt, !.data = dataopt,
                     !.pre = [mem |-> mem, riak |-> riak, uuids |-> uuids]]

\* The operation's outcome as the caller receives it.
Outcome(r, status, obj, keys, objs) ==
    [r EXCEPT !.pc = "done", !.status = status, !.obj = obj, !.keys = keys,
              !.objs = objs, !.model = None, !.todo = <<>>]

Quiet == \A s \in Slots : calls[s].pc = "idle"

\* The client has taken the last outcome and has no operation in flight.
Ready == Quiet /\ last.pc = "idle"

MemCount(m) ==
    LET n(top) == {<<o, k>> : o \in DOMAIN top, k \in UNION {DOMAIN top[x] : x \in DOMAIN top}}
        held(top) == {p \in n(top) : p[2] \in DOMAIN top[p[1]]}
    IN  Cardinality(held(m.stores)) + Cardinality(held(m.rows))

RiakCount(b) == Cardinality(DOMAIN b.StoreData) + Cardinality(DOMAIN b.RowData)

----------------------------------------------------------------------------
(* InMemoryCollection operations: the effect and the value are computed in
   the call; defer_async hands the value to reactor.callLater(0, ...). *)

\* Mutant: the Deferred is fired in the call, not by the reactor.
defer_async_at_once(s, r) ==
    /\ last' = [r EXCEPT !.pc = "done"]
    /\ UNCHANGED <<calls, reactor>>

\* defer_async: the Deferred is pending and a zero-delay call is queued.
defer_async(s, r) ==
    /\ calls' = [calls EXCEPT ![s] = [r EXCEPT !.pc = "deferred"]]
    /\ reactor' = Append(reactor, s)
    /\ last' = IdleCall

\* An AssertionError raised out of the call itself: no Deferred exists.
Raise(s, r) ==
    /\ last' = Outcome(r, "raised", None, <<>>, <<>>)
    /\ UNCHANGED <<calls, reactor>>

InMemoryCollection_create(s, c, idopt, data) ==
    /\ backend = "inmemory"
    /\ calls[s].pc = "idle"
    /\ IsNone(idopt) => uuids < MaxUuids
    /\ LET object_id == IF IsNone(idopt) THEN uuid4(uuids + 1) ELSE The(idopt)
           d == SelfData(mem, c)
           d2 == _set_data(d, c, object_id, data)
           response == _format_data(object_id, d2[_id_to_key(c, object_id)])
       IN  /\ MemCount(mem) < MaxObjects \/ DictHas(d, _id_to_key(c, object_id))
           /\ uuids' = IF IsNone(idopt) THEN uuids + 1 ELSE uuids
           /\ mem' = WithSelfData(mem, c, d2)
           /\ defer_async(s, [NewCall("create", c, idopt, Some(data))
                                 EXCEPT !.status = "ok", !.obj = Some(response)])
    /\ UNCHANGED <<scope, backend, riak>>

\* Mutant: update without its second assertion.
update_asserts_id_only(d, c, idopt) == ~IsNone(idopt)

\* The two assertions of InMemoryCollection.update.
update_asserts(d, c, idopt) ==
    /\ ~IsNone(idopt)
    /\ DictHas(d, _id_to_key(c, The(idopt)))

InMemoryCollection_update(s, c, idopt, data) ==
    /\ backend = "inmemory"
    /\ calls[s].pc = "idle"
    /\ LET d == SelfData(mem, c)
           r == NewCall("update", c, idopt, Some(data))
       IN  IF ~update_asserts(d, c, idopt)
           THEN /\ mem' = InMemoryCollectionBackend_get(mem, c)
                /\ Raise(s, r)
           ELSE LET d2 == _set_data(d, c, The(idopt), data)
                    response == _format_data(The(idopt),
                                             d2[_id_to_key(c, The(idopt))])
                IN  /\ mem' = WithSelfData(mem, c, d2)
                    /\ defer_async(s, [r EXCEPT !.status = "ok",
                                                !.obj = Some(response)])
    /\ UNCHANGED <<scope, backend, riak, uuids>>

InMemoryCollection_delete(s, c, object_id) ==
    /\ backend = "inmemory"
    /\ calls[s].pc = "idle"
    /\ LET d == SelfData(mem, c)
           data == _get_data(d, c, object_id)
       IN  /\ mem' = WithSelfData(mem, c, DictPop(d, _id_to_key(c, object_id)))
           /\ defer_async(s, [NewCall("delete", c, Some(object_id), None)
                                 EXCEPT !.status = "ok", !.obj = data])
    /\ UNCHANGED <<scope, backend, riak, uuids>>

InMemoryCollection_get(s, c, object_id) ==
    /\ backend = "inmemory"
    /\ calls[s].pc = "idle"
    /\ mem' = InMemoryCollectionBackend_get(mem, c)
    /\ defer_async(s, [NewCall("get", c, Some(object_id), None)
                          EXCEPT !.status = "ok",
                                 !.obj = _get_data(SelfData(mem, c), c, object_id)])
    /\ UNCHANGED <<scope, backend, riak, uuids>>

InMemoryCollection_all_keys(s, c) ==
    /\ backend = "inmemory"
    /\ calls[s].pc = "idle"
    /\ mem' = InMemoryCollectionBackend_get(mem, c)
    /\ \E keys \in Orders(_get_keys(SelfData(mem, c), c)) :
           defer_async(s, [NewCall("all_keys", c, None, None)
                              EXCEPT !.status = "ok", !.keys = keys])
    /\ UNCHANGED <<scope, backend, riak, uuids>>

InMemoryCollection_all(s, c) ==
    /\ backend = "inmemory"
    /\ calls[s].pc = "idle"
    /\ mem' = InMemoryCollectionBackend_get(mem, c)
    /\ \E keys \in Orders(_get_keys(SelfData(mem, c), c)) :
           defer_async(s, [NewCall("all", c, None, None)
                EXCEPT !.status = "ok",
                       !.objs = [i \in 1..Len(keys) |->
                                    _get_data(SelfData(mem, c), c, keys[i])]])
    /\ UNCHANGED <<scope, backend, riak, uuids>>

\* Mutant: the value of a get is computed when the reactor runs the call,
\* not when get was called.
Tick_reads_late ==
    /\ reactor # <<>>
    /\ LET s == Head(reactor)
           r == calls[s]
       IN  /\ last' = IF r.op = "get"
                      THEN [r EXCEPT !.pc = "done",
                                     !.obj = _get_data(SelfData(mem, r.coll),
                                                       r.coll, The(r.id))]
                      ELSE [r EXCEPT !.pc = "done"]
           /\ calls' = [calls EXCEPT ![s] = IdleCall]
    /\ reactor' = Tail(reactor)
    /\ UNCHANGED <<scope, backend, mem, riak, uuids>>

\* The reactor runs its next zero-delay call: d.callback(value).
Tick ==
    /\ reactor # <<>>
    /\ LET s == Head(reactor)
       IN  /\ last' = [calls[s] EXCEPT !.pc = "done"]
           /\ calls' = [calls EXCEPT ![s] = IdleCall]
    /\ reactor' = Tail(reactor)
    /\ UNCHANGED <<scope, backend, mem, riak, uuids>>

----------------------------------------------------------------------------
(* collections/riak.py *)

RECURSIVE find(_, _, _)
\* str.find from position i: the index of the first sep, or 0
find(str, sep, i) ==
    IF i > Len(str) THEN 0
    ELSE IF str[i] = sep THEN i ELSE find(str, sep, i + 1)

\* str.partition(':'): <<head, sep, tail>>, or <<str, '', ''>> without a ':'
partition(str) ==
    LET i == find(str, ":", 1)
    IN  IF i = 0 THEN <<str, <<>>, <<>>>>
        ELSE <<SubSeq(str, 1, i - 1), <<":">>, SubSeq(str, i + 1, Len(str))>>

\* Mutant: the row key without its store prefix.
_key_no_store(c, object_id) == object_id

\* RowCollection._key: '%s:%s' % (self.store_id, object_id)
_key(c, object_id) == c.store \o <<":">> \o object_id

\* The Riak key an object id is loaded and saved under.
RiakKey(c, object_id) ==
    IF c.kind = "store" THEN object_id ELSE _key(c, object_id)

\* The bucket a collection's model proxy (self._stores / self._rows) reads.
Bucket(b, c) == IF c.kind = "store" THEN b.StoreData ELSE b.RowData

WithBucket(b, c, d) ==
    IF c.kind = "store" THEN [b EXCEPT !.StoreData = d]
    ELSE [b EXCEPT !.RowData = d]

\* manager.load(key): the model object, or None
load(b, c, key) ==
    IF DictHas(Bucket(b, c), key)
    THEN Some([key |-> key, data |-> Bucket(b, c)[key]])
    ELSE None

\* RowCollection._key_to_id: the assertion's verdict and the object id
Riak_key_to_id(c, key) ==
    LET p == partition(key)
    IN  [ok |-> p[1] = c.store, id |-> p[3]]

\* The dict _format_data builds from a model object: the formatted value,
\* or the AssertionError of _key_to_id.
FormatModel(c, model_obj) ==
    IF c.kind = "store"
    THEN [status |-> "ok",
          obj |-> Some(Object(The(model_obj).key, The(model_obj).data))]
    ELSE LET k == Riak_key_to_id(c, The(model_obj).key)
         IN  IF k.ok
             THEN [status |-> "ok",
                   obj |-> Some(Object(k.id, The(model_obj).data))]
             ELSE [status |-> "failed", obj |-> None]

\* Mutant: _format_data without its "if model_obj is None" line.
Riak_format_data_no_none(c, model_obj) ==
    IF IsNone(model_obj) THEN [status |-> "failed", obj |-> None]
    ELSE FormatModel(c, model_obj)

\* StoreCollection._format_data / RowCollection._format_data on a model
\* object or None.
Riak_format_data(c, model_obj) ==
    IF IsNone(model_obj) THEN [status |-> "ok", obj |-> None]
    ELSE FormatModel(c, model_obj)

\* RowCollection._keys_for_store on one key order; StoreCollection.all_keys
\* returns the bucket's keys as they are.
RECURSIVE _keys_for_store(_, _)
_keys_for_store(c, keys) ==
    IF keys = <<>> THEN <<>>
    ELSE LET p == partition(Head(keys))
             rest == _keys_for_store(c, Tail(keys))
         IN  IF p[1] = c.store THEN <<p[3]>> \o rest ELSE rest

ListedKeys(c, order) ==
    IF c.kind = "store" THEN order ELSE _keys_for_store(c, order)

\* StoreCollection.get / RowCollection.get: what load() and _format_data
\* answer on the buckets b.
Riak_get_value(b, c, object_id) ==
    Riak_format_data(c, load(b, c, RiakKey(c, object_id)))

\* update, once load() has answered: the assertion, then obj.data = data
\* and save().
Riak_update_loaded(model_obj, data) ==
    IF IsNone(model_obj)
    THEN [pc |-> "done", status |-> "failed", model |-> None]
    ELSE [pc |-> "save", status |-> "none",
          model |-> Some([The(model_obj) EXCEPT !.data = data])]

\* Mutant: delete without its "if store_model is None" lines.
Riak_delete_loaded_no_none(c, model_obj) ==
    LET f == Riak_format_data(c, model_obj)
    IN  IF IsNone(model_obj) \/ f.status # "ok"
        THEN [pc |-> "done", status |-> "failed", obj |-> None]
        ELSE [pc |-> "delete", status |-> "none", obj |-> f.obj]

\* delete, once load() has answered: None is returned as it is; otherwise
\* the object is formatted and model.delete() is issued.
Riak_delete_loaded(c, model_obj) ==
    LET f == Riak_format_data(c, model_obj)
    IN  IF IsNone(model_obj)
        THEN [pc |-> "done", status |-> "ok", obj |-> None]
        ELSE IF f.status # "ok"
        THEN [pc |-> "done", status |-> f.status, obj |-> None]
        ELSE [pc |-> "delete", status |-> "none", obj |-> f.obj]

\* The operation ends: its Deferred fires with the outcome.
Complete(s, r, status, obj, keys, objs) ==
    /\ last' = Outcome(r, status, obj, keys, objs)
    /\ calls' = [calls EXCEPT ![s] = IdleCall]

\* create: build the model object and issue save().
Riak_create(s, c, idopt, data) ==
    /\ backend = "riak"
    /\ calls[s].pc = "idle"
    /\ IsNone(idopt) => uuids < MaxUuids
    /\ LET object_id == IF IsNone(idopt) THEN uuid4(uuids + 1) ELSE The(idopt)
           key == RiakKey(c, object_id)
       IN  /\ RiakCount(riak) < MaxObjects \/ DictHas(Bucket(riak, c), key)
           /\ uuids' = IF IsNone(idopt) THEN uuids + 1 ELSE uuids
           /\ calls' = [calls EXCEPT ![s] =
                  [NewCall("create", c, idopt, Some(data))
                      EXCEPT !.pc = "save",
                             !.model = Some([key |-> key, data |-> data])]]
    /\ last' = IdleCall
    /\ UNCHANGED <<scope, backend, mem, riak, reactor>>

\* update: assert object_id is not None, then issue load().
Riak_update(s, c, idopt, data) ==
    /\ backend = "riak"
    /\ calls[s].pc = "idle"
    /\ LET r == NewCall("update", c, idopt, Some(data))
       IN  IF IsNone(idopt)
           THEN /\ last' = Outcome(r, "failed", None, <<>>, <<>>)
                /\ UNCHANGED calls
           ELSE /\ calls' = [calls EXCEPT ![s] = [r EXCEPT !.pc = "load"]]
                /\ last' = IdleCall
    /\ UNCHANGED <<scope, backend, mem, riak, uuids, reactor>>

\* get and delete: issue load().
Riak_get(s, c, object_id) ==
    /\ backend = "riak"
    /\ calls[s].pc = "idle"
    /\ calls' = [calls EXCEPT ![s] =
           [NewCall("get", c, Some(object_id), None) EXCEPT !.pc = "load"]]
    /\ last' = IdleCall
    /\ UNCHANGED <<scope, backend, mem, riak, uuids, reactor>>

Riak_delete(s, c, object_id) ==
    /\ backend = "riak"
    /\ calls[s].pc = "idle"
    /\ calls' = [calls EXCEPT ![s] =
           [NewCall("delete", c, Some(object_id), None) EXCEPT !.pc = "load"]]
    /\ last' = IdleCall
    /\ UNCHANGED <<scope, backend, mem, riak, uuids, reactor>>

\* all_keys and all: issue the bucket's all_keys().
Riak_all_keys(s, c) ==
    /\ backend = "riak"
    /\ calls[s].pc = "idle"
    /\ calls' = [calls EXCEPT ![s] =
           [NewCall("all_keys", c, None, None) EXCEPT !.pc = "keys"]]
    /\ last' = IdleCall
    /\ UNCHANGED <<scope, backend, mem, riak, uuids, reactor>>

Riak_all(s, c) ==
    /\ backend = "riak"
    /\ calls[s].pc = "idle"
    /\ calls' = [calls EXCEPT ![s] =
           [NewCall("all", c, None, None) EXCEPT !.pc = "keys"]]
    /\ last' = IdleCall
    /\ UNCHANGED <<scope, backend, mem, riak, uuids, reactor>>

----------------------------------------------------------------------------
(* The Riak steps of an operation in flight *)

\* load() answers: get formats it; update asserts it and issues save();
\* delete returns None, or formats it and issues delete().
RiakLoad(s) ==
    /\ calls[s].pc = "load"
    /\ LET r == calls[s]
           model_obj == load(riak, r.coll, RiakKey(r.coll, The(r.id)))
           f == Riak_get_value(riak, r.coll, The(r.id))
           u == Riak_update_loaded(model_obj, The(r.data))
           x == Riak_delete_loaded(r.coll, model_obj)
       IN  CASE r.op = "get" ->
                    Complete(s, r, f.status, f.obj, <<>>, <<>>)
             [] r.op = "update" ->
                    IF u.pc = "done"
                    THEN Complete(s, r, u.status, None, <<>>, <<>>)
                    ELSE /\ calls' = [calls EXCEPT ![s] =
                                [r EXCEPT !.pc = u.pc, !.model = u.model]]
                         /\ UNCHANGED last
             [] r.op = "delete" ->
                    IF x.pc = "done"
                    THEN Complete(s, r, x.status, x.obj, <<>>, <<>>)
                    ELSE /\ calls' = [calls EXCEPT ![s] =
                                [r EXCEPT !.pc = x.pc, !.model = model_obj,
                                          !.obj = x.obj]]
                         /\ UNCHANGED last
    /\ UNCHANGED <<scope, backend, mem, riak, uuids, reactor>>

\* save() answers: the object is stored, then _format_data runs.
RiakSave(s) ==
    /\ calls[s].pc = "save"
    /\ LET r == calls[s]
           m == The(r.model)
           f == Riak_format_data(r.coll, r.model)
       IN  /\ riak' = WithBucket(riak, r.coll,
                                 DictSet(Bucket(riak, r.coll), m.key, m.data))
           /\ Complete(s, r, f.status, f.obj, <<>>, <<>>)
    /\ UNCHANGED <<scope, backend, mem, uuids, reactor>>

\* model.delete() answers: the key is removed.
RiakDelete(s) ==
    /\ calls[s].pc = "delete"
    /\ LET r == calls[s]
       IN  /\ riak' = WithBucket(riak, r.coll,
                                 DictPop(Bucket(riak, r.coll), The(r.model).key))
           /\ Complete(s, r, "ok", r.obj, <<>>, <<>>)
    /\ UNCHANGED <<scope, backend, mem, uuids, reactor>>

\* The bucket's all_keys() answers, in some order: all_keys returns the
\* listed ids; all returns the iterator over get(key).
RiakKeys(s) ==
    /\ calls[s].pc = "keys"
    /\ LET r == calls[s]
       IN  \E order \in Orders(DOMAIN Bucket(riak, r.coll)) :
             LET keys == ListedKeys(r.coll, order)
             IN  IF r.op = "all_keys" \/ keys = <<>>
                 THEN Complete(s, r, "ok", None,
                               IF r.op = "all_keys" THEN keys ELSE <<>>, <<>>)
                 ELSE /\ calls' = [calls EXCEPT ![s] =
                             [r EXCEPT !.pc = "fetch", !.todo = keys]]
                      /\ UNCHANGED last
    /\ UNCHANGED <<scope, backend, mem, riak, uuids, reactor>>

\* The consumer of all() takes the next get(key) from the iterator and its
\* load() answers.
RiakFetch(s) ==
    /\ calls[s].pc = "fetch"
    /\ LET r == calls[s]
           f == Riak_get_value(riak, r.coll, Head(r.todo))
           objs == Append(r.objs, f.obj)
       IN  IF f.status # "ok"
           THEN Complete(s, r, f.status, None, <<>>, <<>>)
           ELSE IF Tail(r.todo) = <<>>
           THEN Complete(s, r, "ok", None, <<>>, objs)
           ELSE /\ calls' = [calls EXCEPT ![s] =
                       [r EXCEPT !.todo = Tail(r.todo), !.objs = objs]]
                /\ UNCHANGED last
    /\ UNCHANGED <<scope, backend, mem, riak, uuids, reactor>>

\* The client's callback takes the outcome (the test resumes after its yield).
Return ==
    /\ last.pc = "done"
    /\ last' = IdleCall
    /\ UNCHANGED <<scope, backend, mem, riak, uuids, calls, reactor>>

----------------------------------------------------------------------------
(* Specification: one client that awaits each operation before the next *)

\* No template is being compiled and no request is being handled.
IdleUrl == [pc |-> "idle"]
IdleWeb == [pc |-> "idle"]

\* No object is followed by reference; no concurrent clients are followed.
NoHeap == [cells |-> <<>>, held |-> {}]
NoHist == [pc |-> "idle"]

Init ==
    /\ url = IdleUrl
    /\ web = IdleWeb
    /\ backend \in {"inmemory", "riak"}
    /\ mem = EmptyMem
    /\ riak = EmptyRiak
    /\ uuids = 0
    /\ calls = [s \in Slots |-> IdleCall]
    /\ reactor = <<>>
    /\ heap = NoHeap
    /\ hist = NoHist
    /\ last = IdleCall
    /\ scope \in Scopes

Next ==
    \/ \E c \in scope, id \in {None} \cup {Some(i) : i \in ObjectIds}, data \in Data :
           Ready /\ InMemoryCollection_create(1, c, id, data) /\ UNCHANGED <<url, web, heap, hist>>
    \/ \E c \in scope, id \in {None} \cup {Some(i) : i \in ObjectIds}, data \in Data :
           Ready /\ InMemoryCollection_update(1, c, id, data) /\ UNCHANGED <<url, web, heap, hist>>
    \/ \E c \in scope, id \in ObjectIds :
           Ready /\ InMemoryCollection_delete(1, c, id) /\ UNCHANGED <<url, web, heap, hist>>
    \/ \E c \in scope, id \in ObjectIds :
           Ready /\ InMemoryCollection_get(1, c, id) /\ UNCHANGED <<url, web, heap, hist>>
    \/ \E c \in scope : Ready /\ InMemoryCollection_all_keys(1, c) /\ UNCHANGED <<url, web, heap, hist>>
    \/ \E c \in scope : Ready /\ InMemoryCollection_all(1, c) /\ UNCHANGED <<url, web, heap, hist>>
    \/ Tick /\ UNCHANGED <<url, web, heap, hist>>
    \/ \E c \in scope, id \in {None} \cup {Some(i) : i \in ObjectIds}, data \in Data :
           Ready /\ Riak_create(1, c, id, data) /\ UNCHANGED <<url, web, heap, hist>>
    \/ \E c \in scope, id \in {None} \cup {Some(i) : i \in ObjectIds}, data \in Data :
           Ready /\ Riak_update(1, c, id, data) /\ UNCHANGED <<url, web, heap, hist>>
    \/ \E c \in scope, id \in ObjectIds : Ready /\ Riak_delete(1, c, id) /\ UNCHANGED <<url, web, heap, hist>>
    \/ \E c \in scope, id \in ObjectIds : Ready /\ Riak_get(1, c, id) /\ UNCHANGED <<url, web, heap, hist>>
    \/ \E c \in scope : Ready /\ Riak_all_keys(1, c) /\ UNCHANGED <<url, web, heap, hist>>
    \/ \E c \in scope : Ready /\ Riak_all(1, c) /\ UNCHANGED <<url, web, heap, hist>>
    \/ \E s \in Slots : RiakLoad(s) /\ UNCHANGED <<url, web, heap, hist>>
    \/ \E s \in Slots : RiakSave(s) /\ UNCHANGED <<url, web, heap, hist>>
    \/ \E s \in Slots : RiakDelete(s) /\ UNCHANGED <<url, web, heap, hist>>
    \/ \E s \in Slots : RiakKeys(s) /\ UNCHANGED <<url, web, heap, hist>>
    \/ \E s \in Slots : RiakFetch(s) /\ UNCHANGED <<url, web, heap, hist>>
    \/ Return /\ UNCHANGED <<url, web, heap, hist>>

Spec == Init /\ [][Next]_vars

----------------------------------------------------------------------------
(* What the operations answer on a stored state (m, b) *)

\* get(object_id) on collection c
get_value(m, b, c, object_id) ==
    IF backend = "inmemory"
    THEN [status |-> "ok", obj |-> _get_data(SelfData(m, c), c, object_id)]
    ELSE Riak_get_value(b, c, object_id)

\* The ids all_keys() of collection c lists
listed(m, b, c) ==
    IF backend = "inmemory" THEN _get_keys(SelfData(m, c), c)
    ELSE LET order == CHOOSE q \in Orders(DOMAIN Bucket(b, c)) : TRUE
             keys == ListedKeys(c, order)
         IN  {keys[i] : i \in 1..Len(keys)}

\* Whether collection c holds an object under object_id, and its data
present(m, b, c, object_id) ==
    IF backend = "inmemory"
    THEN DictHas(SelfData(m, c), _id_to_key(c, object_id))
    ELSE DictHas(Bucket(b, c), RiakKey(c, object_id))

stored_data(m, b, c, object_id) ==
    IF backend = "inmemory"
    THEN SelfData(m, c)[_id_to_key(c, object_id)]
    ELSE Bucket(b, c)[RiakKey(c, object_id)]

\* The stored objects: an owner's empty dict holds none.
NonEmpty(top) == [o \in {x \in DOMAIN top : top[x] # EmptyDict} |-> top[o]]
Stored(m, b) ==
    <<[stores |-> NonEmpty(m.stores), rows |-> NonEmpty(m.rows)], b>>

Done(op) == last.pc = "done" /\ last.op = op

\* The id a completed create stored its object under
CreatedId ==
    IF IsNone(last.id) THEN uuid4(last.pre.uuids + 1) ELSE The(last.id)

\* The row collections of the run that differ from c in the store id only
OtherStores(c) ==
    {b \in scope : b.kind = "row" /\ c.kind = "row" /\ b.owner = c.owner
                     /\ b.store # c.store}

----------------------------------------------------------------------------
(* Claims *)

\* C1: create(id, data) returns {id: X, data: data}, and a get(X) made once
\* create has completed returns an object equal to it, in every collection.
C1_RoundTrip ==
    Done("create") =>
        /\ last.status = "ok"
        /\ ~IsNone(last.obj)
        /\ The(last.obj).data = The(last.data)
        /\ get_value(mem, riak, last.coll, The(last.obj).id)
               = [status |-> "ok", obj |-> last.obj]

\* C2: create(None, data) returns an id no earlier create(None, ...)
\* returned, stores the object under it and overwrites no stored object.
C2_FreshId ==
    (Done("create") /\ IsNone(last.id)) =>
        /\ last.status = "ok"
        /\ ~IsNone(last.obj)
        /\ The(last.obj).id \notin {uuid4(n) : n \in 1..last.pre.uuids}
        /\ ~present(last.pre.mem, last.pre.riak, last.coll, The(last.obj).id)
        /\ get_value(mem, riak, last.coll, The(last.obj).id)
               = [status |-> "ok", obj |-> last.obj]
        /\ \A c \in scope, i \in ObjectIds :
               present(last.pre.mem, last.pre.riak, c, i) =>
                   /\ present(mem, riak, c, i)
                   /\ stored_data(mem, riak, c, i)
                          = stored_data(last.pre.mem, last.pre.riak, c, i)

\* C3: create(id, data) with an id stores under that id, draws no new
\* identifier, returns {id, data}, and get(id) returns the same.
C3_GivenId ==
    (Done("create") /\ ~IsNone(last.id)) =>
        /\ last.status = "ok"
        /\ last.obj = Some(Object(The(last.id), The(last.data)))
        /\ uuids = last.pre.uuids
        /\ get_value(mem, riak, last.coll, The(last.id))
               = [status |-> "ok", obj |-> last.obj]

C5_DeletePresent ==
    (Done("delete")
        /\ present(last.pre.mem, last.pre.riak, last.coll, The(last.id))) =>
        /\ last.status = "ok"
        /\ last.obj = Some(Object(The(last.id),
               stored_data(last.pre.mem, last.pre.riak, last.coll, The(last.id))))
        /\ get_value(mem, riak, last.coll, The(last.id))
               = [status |-> "ok", obj |-> None]
        /\ The(last.id) \notin listed(mem, riak, last.coll)

C8_UpdatePresent ==
    (Done("update") /\ ~IsNone(last.id)
        /\ present(last.pre.mem, last.pre.riak, last.coll, The(last.id))) =>
        /\ last.status = "ok"
        /\ last.obj = Some(Object(The(last.id), The(last.data)))
        /\ stored_data(mem, riak, last.coll, The(last.id)) = The(last.data)
        /\ get_value(mem, riak, last.coll, The(last.id))
               = [status |-> "ok", obj |-> last.obj]

\* C9: a create in the row collection of store A changes nothing that
\* all_keys() or all() of another store B of the same owner lists.
C9_StoreIsolation ==
    Done("create") =>
        \A b \in OtherStores(last.coll) :
            /\ listed(mem, riak, b) = listed(last.pre.mem, last.pre.riak, b)
            /\ \A i \in listed(mem, riak, b) :
                   get_value(mem, riak, b, i)
                       = get_value(last.pre.mem, last.pre.riak, b, i)

\* C10: create, update and delete of id X in the row collection of store A
\* leave what store B of the same owner holds under X, and what get(X) in B
\* answers, as they were.
C10_SameIdOtherStore ==
    (Done("create") \/ ((Done("update") \/ Done("delete")) /\ ~IsNone(last.id))) =>
        \A b \in OtherStores(last.coll) :
            LET X == IF Done("create") THEN CreatedId ELSE The(last.id)
                was == present(last.pre.mem, last.pre.riak, b, X)
            IN  /\ present(mem, riak, b, X) = was
                /\ was => stored_data(mem, riak, b, X)
                              = stored_data(last.pre.mem, last.pre.riak, b, X)
                /\ get_value(mem, riak, b, X)
                       = get_value(last.pre.mem, last.pre.riak, b, X)

C10_Witness ==
    /\ Done("update") /\ last.status = "ok"
    /\ \E b \in OtherStores(last.coll) :
           /\ present(mem, riak, b, The(last.id))
           /\ stored_data(mem, riak, b, The(last.id)) # The(last.data)

----------------------------------------------------------------------------
(* Owner scoping *)

\* The dict the in-memory backend holds for owner o and a kind of collection
OwnerDict(m, o, kind) ==
    LET top == IF kind = "store" THEN m.stores ELSE m.rows
    IN  IF DictHas(top, o) THEN top[o] ELSE EmptyDict

\* Whether an object handed to the caller of collection c is one that c's
\* owner held under c's scope when the call was made
OwnObject(m, c, obj) ==
    LET d == OwnerDict(m, c.owner, c.kind)
        key == _id_to_key(c, obj.id)
    IN  DictHas(d, key) /\ d[key] = obj.data

\* The collections of the run that differ from c in the owner only
OtherOwners(c) ==
    {b \in scope : b.kind = c.kind /\ b.store = c.store /\ b.owner # c.owner}

\* C11: in the in-memory backend an operation on a collection of owner P
\* changes no object of another owner Q, and what it answers (an object, the
\* keys, the objects) comes from P's own objects only, even when store ids
\* and object ids are equal.
C11_OwnerScopingInMemory ==
    (backend = "inmemory" /\ last.pc = "done") =>
        /\ \A Q \in Owners \ {last.coll.owner}, kind \in {"store", "row"} :
               OwnerDict(mem, Q, kind) = OwnerDict(last.pre.mem, Q, kind)
        /\ (last.op \in {"get", "delete"} /\ ~IsNone(last.obj)) =>
               OwnObject(last.pre.mem, last.coll, The(last.obj))
        /\ \A i \in 1..Len(last.keys) :
               DictHas(OwnerDict(last.pre.mem, last.coll.owner, last.coll.kind),
                       _id_to_key(last.coll, last.keys[i]))
        /\ \A i \in 1..Len(last.objs) :
               ~IsNone(last.objs[i])
                   /\ OwnObject(last.pre.mem, last.coll, The(last.objs[i]))

C11_Witness ==
    /\ backend = "inmemory" /\ Done("get") /\ last.obj = None
    /\ \E b \in OtherOwners(last.coll) : present(mem, riak, b, The(last.id))

\* C12: in the persistent backend a create in a collection of owner P
\* changes nothing that get, all_keys or all answer in the collection of the
\* same kind and store of another owner Q.
C12_OwnerScopingRiak ==
    (backend = "riak" /\ Done("create")) =>
        \A b \in OtherOwners(last.coll) :
            /\ listed(mem, riak, b) = listed(last.pre.mem, last.pre.riak, b)
            /\ get_value(mem, riak, b, CreatedId)
                   = get_value(last.pre.mem, last.pre.riak, b, CreatedId)

----------------------------------------------------------------------------
(* Listing *)

\* The elements of a sequence
Range(q) == {q[i] : i \in 1..Len(q)}

\* The ids all_keys() of collection c lists once the outcome r has been
\* delivered, given what it listed when the call was made: the id a create
\* answered is added to its collection, the id a delete answered for is
\* removed from it, and nothing else changes.
ListedAfter(r, c) ==
    LET was == listed(r.pre.mem, r.pre.riak, c)
    IN  IF c = r.coll /\ r.op = "create" /\ r.status = "ok"
        THEN was \cup {The(r.obj).id}
        ELSE IF c = r.coll /\ r.op = "delete" /\ r.status = "ok"
        THEN was \ {The(r.id)}
        ELSE was

\* C13: with no operation in flight, all_keys() of a collection lists exactly
\* the ids created through it and not deleted since, each once, and all()
\* answers exactly the objects get answers for those ids. Stated over the
\* operations: nothing is listed before the first operation, and each
\* completed operation changes the listing of every collection by exactly
\* the id it created or deleted.
C13_ListingExact ==
    /\ (mem = EmptyMem /\ riak = EmptyRiak) =>
           \A c \in scope : listed(mem, riak, c) = {}
    /\ last.pc = "done" =>
           \A c \in scope : listed(mem, riak, c) = ListedAfter(last, c)
    /\ Done("all_keys") =>
           /\ last.status = "ok"
           /\ Range(last.keys) = listed(mem, riak, last.coll)
           /\ Len(last.keys) = Cardinality(listed(mem, riak, last.coll))
    /\ Done("all") =>
           /\ last.status = "ok"
           /\ Range(last.objs)
                  = {get_value(mem, riak, last.coll, i).obj :
                         i \in listed(mem, riak, last.coll)}
           /\ Len(last.objs) = Cardinality(listed(mem, riak, last.coll))
           /\ None \notin Range(last.objs)

----------------------------------------------------------------------------
(* api_handler.py: create_urlspec_regex

   A string is a sequence of symbols. A symbol is one character ("/", ":",
   ".", "+"), or a run of letters, digits and underscores that no operation
   here splits ("a", "owner_id", "42"); the text before and the text after
   the %s of replace_part's format string are one symbol each.

   cyclone's URLSpec and Application are outside the repository: URLSpec
   appends "$" to the pattern and compiles it with re.compile, and a request
   path is matched with regex.match, its named groups becoming the path
   bindings. The regular expressions are read as Python reads them, for the
   constructs the symbols can spell: a literal, ".", a postfix "+", and the
   named group; percent-decoding of the bindings is not modelled. *)

MaxDfnLen == 3      \* symbols of an enumerated path template
MaxPathLen == 4     \* symbols of an enumerated request path

DfnChars == {"/", ":", "a", ".", "+"}
PathChars == {"/", "a", "+"}

SeqsUpTo(S, n) == UNION {[1..k -> S] : k \in 0..n}

\* "/:owner_id/store", its element route, and the paths of the scenario
StoreDfn == <<"/", ":", "owner_id", "/", "store">>
ElemSuffix == <<"/", ":", "elem_id">>
Dfns == SeqsUpTo(DfnChars, MaxDfnLen) \cup {StoreDfn, StoreDfn \o ElemSuffix}
Paths ==
    SeqsUpTo(PathChars, MaxPathLen)
        \cup {<<"/", "42", "/", "store">>, <<"/", "42", "/", "store", "/", "99">>}

RECURSIVE split(_)
\* dfn.split("/")
split(str) ==
    LET i == find(str, "/", 1)
    IN  IF i = 0 THEN <<str>>
        ELSE <<SubSeq(str, 1, i - 1)>> \o split(SubSeq(str, i + 1, Len(str)))

RECURSIVE join(_)
\* "/".join(parts)
join(parts) ==
    IF parts = <<>> THEN <<>>
    ELSE IF Len(parts) = 1 THEN parts[1]
    ELSE parts[1] \o <<"/">> \o join(Tail(parts))

\* part.startswith(':')
startswith(part) == Len(part) > 0 /\ part[1] = ":"

RECURSIVE lstrip(_)
\* part.lstrip(":")
lstrip(part) == IF startswith(part) THEN lstrip(Tail(part)) ELSE part

\* Mutant: the variable's name keeps its colon.
replace_part_keeps_colon(part) ==
    IF ~startswith(part) THEN part ELSE <<"(?P<">> \o part \o <<">[^/]*)">>

replace_part(part) ==
    IF ~startswith(part) THEN part
    ELSE <<"(?P<">> \o lstrip(part) \o <<">[^/]*)">>

create_urlspec_regex(dfn) ==
    LET parts == split(dfn)
    IN  join([i \in 1..Len(parts) |-> replace_part(parts[i])])

\* The symbols a group name may be spelled with
NameChar(ch) == ch \notin {"/", ":", ".", "+", "(?P<", ">[^/]*)"}
ValidName(name) == name # <<>> /\ \A i \in 1..Len(name) : NameChar(name[i])

ReError == [ok |-> FALSE, toks |-> <<>>]

RECURSIVE re_parse(_)
\* re.compile: the pattern as a sequence of items, each a literal, "." or a
\* named group of [^/]*, a literal or "." possibly repeated by "+"; or the
\* error re.compile raises (nothing to repeat, bad or missing group name).
re_parse(p) ==
    IF p = <<>> THEN [ok |-> TRUE, toks |-> <<>>]
    ELSE IF Head(p) = "(?P<"
    THEN LET j == find(p, ">[^/]*)", 2)
             name == SubSeq(p, 2, j - 1)
             rest == re_parse(SubSeq(p, j + 1, Len(p)))
         IN  IF j = 0 \/ ~ValidName(name) \/ ~rest.ok THEN ReError
             ELSE [ok |-> TRUE,
                   toks |-> <<[kind |-> "group", name |-> name, plus |-> FALSE]>>
                                \o rest.toks]
    ELSE IF Head(p) \in {"+", ">[^/]*)"} THEN ReError
    ELSE LET plus == Len(p) >= 2 /\ p[2] = "+"
             rest == re_parse(SubSeq(p, IF plus THEN 3 ELSE 2, Len(p)))
             kind == IF Head(p) = "." THEN "any" ELSE "lit"
         IN  IF ~rest.ok THEN ReError
             ELSE [ok |-> TRUE,
                   toks |-> <<[kind |-> kind, name |-> <<Head(p)>>, plus |-> plus]>>
                                \o rest.toks]

\* re.compile(pattern + "$"): a group name may be defined once only.
re_compile(p) ==
    LET r == re_parse(p)
        groups == {i \in 1..Len(r.toks) : r.toks[i].kind = "group"}
    IN  IF \E i, j \in groups : i # j /\ r.toks[i].name = r.toks[j].name
        THEN ReError ELSE r

\* Mutant: the capture written as (?P<name>.*), which accepts "/" too.
Accepts_slash(tok, ch) ==
    CASE tok.kind = "lit" -> ch = tok.name[1]
      [] tok.kind = "any" -> TRUE
      [] tok.kind = "group" -> TRUE

\* Whether an item accepts a symbol of the path
Accepts(tok, ch) ==
    CASE tok.kind = "lit" -> ch = tok.name[1]
      [] tok.kind = "any" -> TRUE
      [] tok.kind = "group" -> ch # "/"

RECURSIVE Run(_, _)
\* How many leading symbols of the path an item accepts
Run(tok, path) ==
    IF path = <<>> \/ ~Accepts(tok, Head(path)) THEN 0
    ELSE 1 + Run(tok, Tail(path))

RECURSIVE re_match(_, _, _)
RECURSIVE re_try(_, _, _, _, _)
\* regex.match(path) with the pattern anchored by "$": the groupdict of the
\* first match in backtracking order (a repetition takes the longest run
\* first), or None.
re_match(toks, path, env) ==
    IF toks = <<>> THEN (IF path = <<>> THEN Some(env) ELSE None)
    ELSE LET tok == Head(toks)
         IN  IF tok.kind = "group" THEN re_try(toks, path, env, Run(tok, path), 0)
             ELSE IF tok.plus THEN re_try(toks, path, env, Run(tok, path), 1)
             ELSE IF path # <<>> /\ Accepts(tok, Head(path))
             THEN re_match(Tail(toks), Tail(path), env)
             ELSE None

\* The first item taking n symbols, then n - 1, ..., down to lo
re_try(toks, path, env, n, lo) ==
    IF n < lo THEN None
    ELSE LET tok == Head(toks)
             env2 == IF tok.kind = "group"
                     THEN DictSet(env, tok.name, SubSeq(path, 1, n)) ELSE env
             m == re_match(Tail(toks), SubSeq(path, n + 1, Len(path)), env2)
         IN  IF m # None THEN m ELSE re_try(toks, path, env, n - 1, lo)

\* CollectionHandler.mk_urlspec: URLSpec(create_urlspec_regex(dfn), ...)
Compile ==
    /\ url.pc = "dfn"
    /\ LET regex == create_urlspec_regex(url.dfn)
       IN  url' = [url EXCEPT !.pc = "compiled", !.regex = regex,
                              !.ok = re_compile(regex).ok]
    /\ UNCHANGED <<collVars, web, heap, hist>>

\* A request path is matched against the URLSpec.
Match(path) ==
    /\ url.pc = "compiled"
    /\ url.ok
    /\ url' = [url EXCEPT !.pc = "matched", !.path = path,
                          !.match = re_match(re_compile(url.regex).toks, path,
                                             EmptyDict)]
    /\ UNCHANGED <<collVars, web, heap, hist>>

InitUrl ==
    /\ url \in {[pc |-> "dfn", dfn |-> d, regex |-> <<>>, ok |-> TRUE,
                  path |-> <<>>, match |-> None] : d \in Dfns}
    /\ web = IdleWeb
    /\ backend = "inmemory"
    /\ mem = EmptyMem
    /\ riak = EmptyRiak
    /\ uuids = 0
    /\ calls = [s \in Slots |-> IdleCall]
    /\ reactor = <<>>
    /\ heap = NoHeap
    /\ hist = NoHist
    /\ last = IdleCall
    /\ scope = {}

NextUrl ==
    \/ Compile
    \/ \E path \in Paths : Match(path)

SpecUrl == InitUrl /\ [][NextUrl]_vars

----------------------------------------------------------------------------
(* Claims about the path compiler *)

\* The variable a segment names: the segment without its leading colons
VarName(seg) ==
    CHOOSE n \in {SubSeq(seg, k, Len(seg)) : k \in 1..(Len(seg) + 1)} :
        /\ ~startswith(n)
        /\ \A i \in 1..(Len(seg) - Len(n)) : seg[i] = ":"

\* The named capture of a variable
Capture(name) == <<"(?P<">> \o name \o <<">[^/]*)">>

VarSegments(dfn) == {i \in 1..Len(split(dfn)) : startswith(split(dfn)[i])}

\* A template whose literal segments spell no regular-expression operator
PlainLiterals(dfn) ==
    \A i \in 1..Len(split(dfn)) :
        i \notin VarSegments(dfn) => \A k \in 1..Len(split(dfn)[i]) :
            split(dfn)[i][k] \notin {".", "+"}

Matched == url.pc = "matched" /\ url.match # None

\* C14: the compiled pattern has the template's segments in their order,
\* each segment that starts with ":" replaced by the named capture of its
\* variable; a match binds exactly the template's variables, to values
\* without "/", and where the literal segments are plain text, each to the
\* path segment at the variable's position; "/:owner_id/store" on
\* "/42/store" binds owner_id to "42", the element route on "/42/store/99"
\* binds owner_id to "42" and elem_id to "99".
C14_BindsVariables ==
    /\ url.pc \in {"compiled", "matched"} =>
           LET segs == split(url.dfn)
               psegs == split(url.regex)
           IN  /\ Len(psegs) = Len(segs)
               /\ \A i \in 1..Len(segs) :
                      psegs[i] = IF startswith(segs[i])
                                 THEN Capture(VarName(segs[i])) ELSE segs[i]
    /\ Matched =>
           LET segs == split(url.dfn)
               kw == The(url.match)
           IN  /\ DOMAIN kw = {VarName(segs[i]) : i \in VarSegments(url.dfn)}
               /\ \A n \in DOMAIN kw : "/" \notin Range(kw[n])
               /\ PlainLiterals(url.dfn) =>
                      /\ Len(split(url.path)) = Len(segs)
                      /\ \A i \in VarSegments(url.dfn) :
                             kw[VarName(segs[i])] = split(url.path)[i]
    /\ (url.pc = "matched" /\ url.dfn = StoreDfn
            /\ url.path = <<"/", "42", "/", "store">>) =>
           url.match = Some((<<"owner_id">> :> <<"42">>))
    /\ (url.pc = "matched" /\ url.dfn = StoreDfn \o ElemSuffix
            /\ url.path = <<"/", "42", "/", "store", "/", "99">>) =>
           url.match = Some((<<"owner_id">> :> <<"42">>)
                                @@ (<<"elem_id">> :> <<"99">>))

C14_Witness ==
    /\ Matched
    /\ url.dfn = StoreDfn \o ElemSuffix
    /\ url.path = <<"/", "42", "/", "store", "/", "99">>

\* C15: a template without variable segments compiles to a pattern equal to
\* the template, and the template's own text as a path matches it with no
\* bindings.
C15_NoVariables ==
    (url.pc \in {"compiled", "matched"} /\ VarSegments(url.dfn) = {}) =>
        /\ url.regex = url.dfn
        /\ url.ok
        /\ (url.pc = "matched" /\ url.path = url.dfn) =>
               url.match = Some(EmptyDict)

\* C16: a path matches only if it has the template's segments and every
\* literal segment of the template equals the path's segment at its place.
C16_LiteralsVerbatim ==
    Matched =>
        LET segs == split(url.dfn)
            psegs == split(url.path)
        IN  /\ Len(psegs) = Len(segs)
            /\ \A i \in 1..Len(segs) :
                   i \notin VarSegments(url.dfn) => psegs[i] = segs[i]

----------------------------------------------------------------------------
(* api_handler.py: ApiApplication._build_routes *)

MaxRoutes == 2      \* (dfn, collection_factory) pairs of an enumerated app

\* server.py: the two definitions of StoreServer.collections
StoresDfn == <<"/", ":", "owner_id", "/", "stores">>
KeysDfn == StoresDfn \o <<"/", ":", "store_id", "/", "keys">>

Factories == {"get_store_collection", "get_row_collection"}

\* The collections attribute of an ApiApplication: a tuple of pairs
RouteDfns == {<<>>, <<"/", "root">>, StoreDfn, StoresDfn, KeysDfn}
Collections ==
    UNION {[1..n -> RouteDfns \X Factories] : n \in 0..MaxRoutes}

\* StoreServer.collections
StoreServer_collections ==
    << <<StoresDfn, "get_store_collection">>,
       <<KeysDfn, "get_row_collection">> >>

\* URLSpec: the pattern, compiled once, the handler class and its kwargs
URLSpec(pattern, handler_class, collection_factory) ==
    [regex |-> pattern, compiled |-> re_compile(pattern),
     handler_class |-> handler_class,
     kwargs |-> [collection_factory |-> collection_factory]]

CollectionHandler_mk_urlspec(dfn, collection_factory) ==
    URLSpec(create_urlspec_regex(dfn), "CollectionHandler", collection_factory)

\* Mutant: the element route without its elem_id segment.
ElementHandler_mk_urlspec_no_elem(dfn, collection_factory) ==
    URLSpec(create_urlspec_regex(dfn), "ElementHandler", collection_factory)

ElementHandler_mk_urlspec(dfn, collection_factory) ==
    URLSpec(create_urlspec_regex(dfn \o ElemSuffix), "ElementHandler",
            collection_factory)

RECURSIVE _build_routes(_)
_build_routes(collections) ==
    IF collections = <<>> THEN <<>>
    ELSE LET dfn == Head(collections)[1]
             collection_factory == Head(collections)[2]
         IN  <<CollectionHandler_mk_urlspec(dfn, collection_factory),
               ElementHandler_mk_urlspec(dfn, collection_factory)>>
                 \o _build_routes(Tail(collections))

\* ApiApplication.__init__: routes = self._build_routes()
ApiApplication_init ==
    /\ web.pc = "collections"
    /\ web' = [web EXCEPT !.pc = "routes",
                          !.routes = _build_routes(web.collections)]
    /\ UNCHANGED <<collVars, url, heap, hist>>

InitRoutes ==
    /\ web \in {[pc |-> "collections", collections |-> cs, routes |-> <<>>] :
                  cs \in Collections}
    /\ url = IdleUrl
    /\ backend = "inmemory"
    /\ mem = EmptyMem
    /\ riak = EmptyRiak
    /\ uuids = 0
    /\ calls = [s \in Slots |-> IdleCall]
    /\ reactor = <<>>
    /\ heap = NoHeap
    /\ hist = NoHist
    /\ last = IdleCall
    /\ scope = {}

NextRoutes == ApiApplication_init

SpecRoutes == InitRoutes /\ [][NextRoutes]_vars

\* C17: the routes are built pair by pair in the order of the configuration,
\* two for each pair: the collection route of the pair's template with
\* CollectionHandler, then the element route, whose pattern is the
\* collection route's followed by "/" and the capture of elem_id, with
\* ElementHandler; both carry the pair's factory.
C17_RouteRegistration ==
    web.pc = "routes" =>
        /\ Len(web.routes) = 2 * Len(web.collections)
        /\ \A i \in 1..Len(web.collections) :
               LET dfn == web.collections[i][1]
                   factory == web.collections[i][2]
                   coll_route == web.routes[2 * i - 1]
                   elem_route == web.routes[2 * i]
               IN  /\ coll_route.handler_class = "CollectionHandler"
                   /\ coll_route.regex = create_urlspec_regex(dfn)
                   /\ coll_route.kwargs = [collection_factory |-> factory]
                   /\ elem_route.handler_class = "ElementHandler"
                   /\ elem_route.regex
                          = coll_route.regex \o <<"/">> \o Capture(<<"elem_id">>)
                   /\ elem_route.kwargs = [collection_factory |-> factory]

C17_Witness ==
    /\ web.pc = "routes"
    /\ Len(web.collections) = 2
    /\ web.collections[1] # web.collections[2]
    /\ web.routes[3].regex = create_urlspec_regex(KeysDfn)

----------------------------------------------------------------------------
(* api_handler.py: CollectionHandler and ElementHandler

   cyclone's Application is outside the repository: it hands a request to
   the first route whose pattern matches the path, with the match's named
   groups as path_kwargs, calls the handler's prepare() and then the method
   of the request's verb; no matching route answers 404, a verb the handler
   does not define answers 405, and an exception raised out of the method
   answers 500 "Internal Server Error". *)

Verbs == {"GET", "POST", "PUT", "DELETE"}

\* The collection the test's zero-argument factory returns (lambda:
\* self.collection), taken from the backend under an owner of its own.
RootColl == StoreColl(<<"root">>)
Root_collections == << <<<<"/", "root">>, "collection_factory">> >>

\* The request paths of a collection and of one of its elements
CollPath(c) ==
    IF c = RootColl THEN <<"/", "root">>
    ELSE IF c.kind = "store" THEN <<"/">> \o c.owner \o <<"/", "stores">>
    ELSE <<"/">> \o c.owner \o <<"/", "stores", "/">> \o c.store
             \o <<"/", "keys">>
ElemPath(c, e) == CollPath(c) \o <<"/">> \o e

RequestPaths ==
    {CollPath(c) : c \in scope}
        \cup {ElemPath(c, e) : c \in scope, e \in ObjectIds}
        \cup {<<"/">> \o o : o \in Owners}

RECURSIVE find_handler(_, _)
\* The first route whose pattern matches the path, and the match
find_handler(routes, path) ==
    IF routes = <<>>
    THEN [found |-> FALSE, spec |-> URLSpec(<<>>, "", ""), groupdict |-> EmptyDict]
    ELSE LET spec == Head(routes)
             m == IF spec.compiled.ok
                  THEN re_match(spec.compiled.toks, path, EmptyDict) ELSE None
         IN  IF m # None
             THEN [found |-> TRUE, spec |-> spec, groupdict |-> The(m)]
             ELSE find_handler(Tail(routes), path)

\* The path_kwargs a handler may be given for a match: the named groups;
\* without named groups the handler code allows for None as for {}.
PathKwargs(groupdict) ==
    IF groupdict = EmptyDict THEN {None, Some(EmptyDict)} ELSE {Some(groupdict)}

\* The handler's attributes after CollectionHandler.prepare, but for the
\* collection
CollectionHandler_prepare(path_kwargs) ==
    LET kw == IF IsNone(path_kwargs) THEN EmptyDict ELSE The(path_kwargs)
    IN  [path_kwargs |-> path_kwargs, kw |-> kw, elem_id |-> None]

\* Mutant: elem_id is popped from path_kwargs itself, not from a copy.
ElementHandler_prepare_no_copy(path_kwargs) ==
    LET kw == DictPop(The(path_kwargs), <<"elem_id">>)
    IN  [path_kwargs |-> Some(kw), kw |-> kw,
         elem_id |-> Some(The(path_kwargs)[<<"elem_id">>])]

\* The handler's attributes after ElementHandler.prepare, but for the
\* collection: kw is a copy of path_kwargs without elem_id.
ElementHandler_prepare(path_kwargs) ==
    LET copy == The(path_kwargs)
        elem_id == copy[<<"elem_id">>]
        kw == DictPop(copy, <<"elem_id">>)
    IN  [path_kwargs |-> path_kwargs, kw |-> kw, elem_id |-> Some(elem_id)]

\* Mutant: the row collection factory takes the first store for every store.
collection_factory_one_store(factory, kw) ==
    IF factory = "get_row_collection"
           /\ DOMAIN kw = {<<"owner_id">>, <<"store_id">>}
    THEN [ok |-> TRUE, coll |-> RowColl(kw[<<"owner_id">>], <<"s">>)]
    ELSE IF factory = "get_store_collection" /\ DOMAIN kw = {<<"owner_id">>}
    THEN [ok |-> TRUE, coll |-> StoreColl(kw[<<"owner_id">>])]
    ELSE [ok |-> factory = "collection_factory" /\ kw = EmptyDict,
          coll |-> RootColl]

\* self.collection_factory(**kw): the collection, or the TypeError of a call
\* with other keyword arguments than the factory's parameters
collection_factory(factory, kw) ==
    IF factory = "get_store_collection"
    THEN IF DOMAIN kw = {<<"owner_id">>}
         THEN [ok |-> TRUE, coll |-> StoreColl(kw[<<"owner_id">>])]
         ELSE [ok |-> FALSE, coll |-> NoColl]
    ELSE IF factory = "get_row_collection"
    THEN IF DOMAIN kw = {<<"owner_id">>, <<"store_id">>}
         THEN [ok |-> TRUE,
               coll |-> RowColl(kw[<<"owner_id">>], kw[<<"store_id">>])]
         ELSE [ok |-> FALSE, coll |-> NoColl]
    ELSE IF kw = EmptyDict THEN [ok |-> TRUE, coll |-> RootColl]
         ELSE [ok |-> FALSE, coll |-> NoColl]

\* The handler a request is given and its state after prepare()
Prepared(fh, path_kwargs) ==
    LET h == IF fh.spec.handler_class = "CollectionHandler"
             THEN CollectionHandler_prepare(path_kwargs)
             ELSE ElementHandler_prepare(path_kwargs)
        made == collection_factory(fh.spec.kwargs.collection_factory, h.kw)
    IN  [handler_class |-> fh.spec.handler_class,
         path_kwargs |-> h.path_kwargs, kw |-> h.kw, elem_id |-> h.elem_id,
         ok |-> made.ok, collection |-> made.coll]

\* The methods a handler class defines
Methods(handler_class) ==
    IF handler_class = "CollectionHandler" THEN {"GET", "POST"}
    ELSE {"GET", "PUT", "DELETE"}

NoReason == [text |-> "", arg |-> None]

\* No request is being handled by the application.
IdleApi(app, routes) ==
    [pc |-> "idle", app |-> app, routes |-> routes, verb |-> "",
     path |-> <<>>, body |-> None, handler_class |-> "",
     path_kwargs |-> None, kw |-> EmptyDict, elem_id |-> None,
     collection |-> NoColl, status |-> 0, reason |-> NoReason,
     written |-> <<>>, log |-> <<>>]

\* A request has been given to its handler and prepare() has run.
Handling(verb, path, body, h) ==
    [IdleApi(web.app, web.routes) EXCEPT
        !.pc = "waiting", !.verb = verb, !.path = path, !.body = body,
        !.handler_class = h.handler_class, !.path_kwargs = h.path_kwargs,
        !.kw = h.kw, !.elem_id = h.elem_id, !.collection = h.collection]

\* The application takes the next request.
Accepting == web.pc = "idle" /\ Ready

\* A route was found for the request and prepare() made a collection.
Routed(fh, h) == fh.found /\ h.ok /\ h.collection \in scope

----------------------------------------------------------------------------
(* The handlers' methods: each calls one operation of self.collection, of
   whichever backend made the collection, and leaves the rest to callbacks *)

CollectionHandler_get(path) ==
    /\ Accepting
    /\ LET fh == find_handler(web.routes, path)
       IN  \E path_kwargs \in PathKwargs(fh.groupdict) :
             LET h == Prepared(fh, path_kwargs)
             IN  /\ Routed(fh, h)
                 /\ h.handler_class = "CollectionHandler"
                 /\ \/ InMemoryCollection_all(1, h.collection)
                    \/ Riak_all(1, h.collection)
                 /\ web' = Handling("GET", path, None, h)
    /\ UNCHANGED <<url, heap, hist>>

CollectionHandler_post(path, data) ==
    /\ Accepting
    /\ LET fh == find_handler(web.routes, path)
       IN  \E path_kwargs \in PathKwargs(fh.groupdict) :
             LET h == Prepared(fh, path_kwargs)
             IN  /\ Routed(fh, h)
                 /\ h.handler_class = "CollectionHandler"
                 /\ \/ InMemoryCollection_create(1, h.collection, None, data)
                    \/ Riak_create(1, h.collection, None, data)
                 /\ web' = Handling("POST", path, Some(data), h)
    /\ UNCHANGED <<url, heap, hist>>

ElementHandler_get(path) ==
    /\ Accepting
    /\ LET fh == find_handler(web.routes, path)
           h == Prepared(fh, Some(fh.groupdict))
       IN  /\ Routed(fh, h)
           /\ h.handler_class = "ElementHandler"
           /\ \/ InMemoryCollection_get(1, h.collection, The(h.elem_id))
              \/ Riak_get(1, h.collection, The(h.elem_id))
           /\ web' = Handling("GET", path, None, h)
    /\ UNCHANGED <<url, heap, hist>>

ElementHandler_put(path, data) ==
    /\ Accepting
    /\ LET fh == find_handler(web.routes, path)
           h == Prepared(fh, Some(fh.groupdict))
       IN  /\ Routed(fh, h)
           /\ h.handler_class = "ElementHandler"
           /\ \/ InMemoryCollection_update(1, h.collection, h.elem_id, data)
              \/ Riak_update(1, h.collection, h.elem_id, data)
           /\ web' = Handling("PUT", path, Some(data), h)
    /\ UNCHANGED <<url, heap, hist>>

ElementHandler_delete(path) ==
    /\ Accepting
    /\ LET fh == find_handler(web.routes, path)
           h == Prepared(fh, Some(fh.groupdict))
       IN  /\ Routed(fh, h)
           /\ h.handler_class = "ElementHandler"
           /\ \/ InMemoryCollection_delete(1, h.collection, The(h.elem_id))
              \/ Riak_delete(1, h.collection, The(h.elem_id))
           /\ web' = Handling("DELETE", path, None, h)
    /\ UNCHANGED <<url, heap, hist>>

\* A verb the handler does not define: prepare() has made the collection,
\* the method answers 405.
MethodNotAllowed(verb, path) ==
    /\ Accepting
    /\ LET fh == find_handler(web.routes, path)
           h == Prepared(fh, Some(fh.groupdict))
       IN  /\ Routed(fh, h)
           /\ verb \notin Methods(h.handler_class)
           /\ mem' = IF backend = "inmemory"
                     THEN InMemoryCollectionBackend_get(mem, h.collection)
                     ELSE mem
           /\ web' = [Handling(verb, path, None, h) EXCEPT
                         !.pc = "responded", !.status = 405,
                         !.reason = [text |-> "Method Not Allowed", arg |-> None]]
    /\ UNCHANGED <<backend, riak, uuids, calls, reactor, last, scope, url, heap, hist>>

\* No route matches the path: 404.
NoRoute(verb, path) ==
    /\ Accepting
    /\ ~find_handler(web.routes, path).found
    /\ web' = [IdleApi(web.app, web.routes) EXCEPT
                  !.pc = "responded", !.verb = verb, !.path = path,
                  !.status = 404,
                  !.reason = [text |-> "Not Found", arg |-> None]]
    /\ UNCHANGED <<collVars, url, heap, hist>>

----------------------------------------------------------------------------
(* The callbacks of the handlers' methods: write_object, write_objects,
   raise_err *)

\* What the handler writes: a dict written as JSON, or text
JsonChunk(v) == [kind |-> "json", v |-> v]
TextChunk(v) == [kind |-> "text", v |-> v]

\* A JSON value by its type
JsonString(s) == [type |-> "string", v |-> s]
JsonObject(o) == [type |-> "object", v |-> o]

RECURSIVE write_objects_newline_always(_)
\* Mutant: write_objects without its "continue": None is skipped but its
\* newline is written.
write_objects_newline_always(objs) ==
    IF objs = <<>> THEN <<>>
    ELSE (IF IsNone(Head(objs)) THEN <<TextChunk("\n")>>
          ELSE <<JsonChunk(The(Head(objs))), TextChunk("\n")>>)
             \o write_objects_newline_always(Tail(objs))

RECURSIVE write_objects(_)
\* write_objects over resolved elements: each object that is not None is
\* written and followed by "\n".
write_objects(objs) ==
    IF objs = <<>> THEN <<>>
    ELSE (IF IsNone(Head(objs)) THEN <<>>
          ELSE <<JsonChunk(The(Head(objs))), TextChunk("\n")>>)
             \o write_objects(Tail(objs))

\* The element of all() that the persistent backend fetches next is written
\* as soon as it resolves, before the next one is fetched.
ListFetch(s) ==
    /\ web.pc = "waiting"
    /\ RiakFetch(s)
    /\ LET f == Riak_get_value(riak, calls[s].coll, Head(calls[s].todo))
       IN  web' = IF f.status = "ok"
                  THEN [web EXCEPT !.written = @ \o write_objects(<<f.obj>>)]
                  ELSE web
    /\ UNCHANGED <<url, heap>>

\* raise_err: log.err(failure), then HTTPError(status_code, reason)
raise_err(w, failure, status_code, text, arg) ==
    [w EXCEPT !.pc = "responded", !.log = Append(@, failure),
              !.status = status_code, !.reason = [text |-> text, arg |-> arg]]

\* The request ends without an error: 200.
Finished(w, written) ==
    [w EXCEPT !.pc = "responded", !.status = 200,
              !.reason = [text |-> "OK", arg |-> None], !.written = written]

\* Mutant: CollectionHandler.get without its addErrback: the failure reaches
\* the framework, which answers its own 500.
Failed_no_list_errback(w) ==
    CASE w.verb = "POST" ->
             raise_err(w, "Failure", 500, "Failed to create object.", None)
      [] w.verb = "PUT" ->
             raise_err(w, "Failure", 500, "Failed to update %r", w.elem_id)
      [] w.verb = "DELETE" ->
             raise_err(w, "Failure", 500, "Failed to delete %r", w.elem_id)
      [] w.verb = "GET" /\ w.handler_class = "CollectionHandler" ->
             [w EXCEPT !.pc = "responded", !.status = 500,
                       !.reason = [text |-> "Internal Server Error", arg |-> None]]
      [] w.verb = "GET" /\ w.handler_class = "ElementHandler" ->
             raise_err(raise_err(w, "Failure", 500, "Failed to write object", None),
                       "HTTPError", 500, "Failed to retrieve %r", w.elem_id)

\* The errbacks a failed operation runs through, by handler method
Failed(w) ==
    CASE w.verb = "POST" ->
             raise_err(w, "Failure", 500, "Failed to create object.", None)
      [] w.verb = "PUT" ->
             raise_err(w, "Failure", 500, "Failed to update %r", w.elem_id)
      [] w.verb = "DELETE" ->
             raise_err(w, "Failure", 500, "Failed to delete %r", w.elem_id)
      [] w.verb = "GET" /\ w.handler_class = "CollectionHandler" ->
             raise_err(w, "Failure", 500, "Failed to retrieve object.", None)
      [] w.verb = "GET" /\ w.handler_class = "ElementHandler" ->
             raise_err(raise_err(w, "Failure", 500, "Failed to write object", None),
                       "HTTPError", 500, "Failed to retrieve %r", w.elem_id)

\* The responses a request may end with once its operation has ended with
\* outcome r. self.write(None), for a get that answers None, is cyclone's:
\* it either writes nothing or raises.
Responses(w, r) ==
    IF r.status = "raised"
    THEN {[w EXCEPT !.pc = "responded", !.status = 500,
                    !.reason = [text |-> "Internal Server Error", arg |-> None]]}
    ELSE IF r.status = "failed" THEN {Failed(w)}
    ELSE CASE w.verb = "POST" ->
                  {Finished(w, <<JsonChunk([id |-> JsonObject(The(r.obj))])>>)}
           [] w.verb \in {"PUT", "DELETE"} ->
                  {Finished(w, <<JsonChunk([success |-> TRUE])>>)}
           [] w.verb = "GET" /\ w.handler_class = "CollectionHandler" ->
                  {Finished(w, IF backend = "inmemory" THEN write_objects(r.objs)
                               ELSE w.written)}
           [] w.verb = "GET" /\ w.handler_class = "ElementHandler" ->
                  IF IsNone(r.obj) THEN {Finished(w, <<>>), Failed(w)}
                  ELSE {Finished(w, <<JsonChunk(The(r.obj))>>)}

\* The Deferred of the handler's operation has fired with outcome r and the
\* handler's callbacks run.
RespondTo(r) ==
    /\ web.pc = "waiting"
    /\ r.pc = "done"
    /\ web' \in Responses(web, r)
    /\ UNCHANGED <<collVars, url, heap, hist>>

\* One request at a time: the outcome delivered last is the handler's.
Respond == RespondTo(last)

\* The response is sent and the handler is done.
Close ==
    /\ web.pc = "responded"
    /\ web' = IdleApi(web.app, web.routes)
    /\ last' = IdleCall
    /\ UNCHANGED <<backend, mem, riak, uuids, calls, reactor, scope, url, heap, hist>>

----------------------------------------------------------------------------
(* Specification: an application serving one request after the other *)

InitApi ==
    /\ url = IdleUrl
    /\ backend \in {"inmemory", "riak"}
    /\ mem = EmptyMem
    /\ riak = EmptyRiak
    /\ uuids = 0
    /\ calls = [s \in Slots |-> IdleCall]
    /\ reactor = <<>>
    /\ heap = NoHeap
    /\ hist = NoHist
    /\ last = IdleCall
    /\ \/ /\ scope \in Scopes
          /\ web = IdleApi("StoreServer", _build_routes(StoreServer_collections))
       \/ /\ scope = {RootColl}
          /\ web = IdleApi("root", _build_routes(Root_collections))

NextApi ==
    \/ \E path \in RequestPaths : CollectionHandler_get(path)
    \/ \E path \in RequestPaths, data \in Data : CollectionHandler_post(path, data)
    \/ \E path \in RequestPaths : ElementHandler_get(path)
    \/ \E path \in RequestPaths, data \in Data : ElementHandler_put(path, data)
    \/ \E path \in RequestPaths : ElementHandler_delete(path)
    \/ \E verb \in Verbs, path \in RequestPaths : MethodNotAllowed(verb, path)
    \/ \E verb \in Verbs, path \in RequestPaths : NoRoute(verb, path)
    \/ Tick /\ UNCHANGED <<url, web, heap, hist>>
    \/ \E s \in Slots : RiakLoad(s) /\ UNCHANGED <<url, web, heap, hist>>
    \/ \E s \in Slots : RiakSave(s) /\ UNCHANGED <<url, web, heap, hist>>
    \/ \E s \in Slots : RiakDelete(s) /\ UNCHANGED <<url, web, heap, hist>>
    \/ \E s \in Slots : RiakKeys(s) /\ UNCHANGED <<url, web, heap, hist>>
    \/ \E s \in Slots : ListFetch(s) /\ UNCHANGED hist
    \/ Respond
    \/ Close

SpecApi == InitApi /\ [][NextApi]_vars

----------------------------------------------------------------------------
(* Claims about the dispatcher *)

\* The operations of the collections that are running or have just ended
HandlerCalls ==
    {c \in {last} \cup {calls[s] : s \in Slots} : c.pc # "idle"}

\* A request is with a handler whose method the handler class defines.
InHandler ==
    /\ web.pc \in {"waiting", "responded"}
    /\ web.handler_class # ""
    /\ web.verb \in Methods(web.handler_class)

\* C18: on an element request the handler takes elem_id out of the path
\* bindings as the target identifier and calls the collection factory with
\* exactly the remaining bindings, never elem_id, and leaves the request's
\* path bindings as they were matched; on a collection request the factory
\* is called with all bindings, with none when there are none.  The
\* operation is called on the collection the factory made.
C18_BindingResolution ==
    InHandler =>
        LET fh == find_handler(web.routes, web.path)
            m == fh.groupdict
            made == collection_factory(fh.spec.kwargs.collection_factory, web.kw)
        IN  /\ fh.found
            /\ web.handler_class = fh.spec.handler_class
            /\ web.handler_class = "ElementHandler" =>
                  /\ <<"elem_id">> \in DOMAIN m
                  /\ web.elem_id = Some(m[<<"elem_id">>])
                  /\ <<"elem_id">> \notin DOMAIN web.kw
                  /\ DOMAIN web.kw = (DOMAIN m) \ {<<"elem_id">>}
                  /\ \A k \in DOMAIN web.kw : web.kw[k] = m[k]
                  /\ web.path_kwargs = Some(m)
            /\ web.handler_class = "CollectionHandler" =>
                  /\ web.elem_id = None
                  /\ web.kw = m
                  /\ web.path_kwargs \in PathKwargs(m)
            /\ made.ok
            /\ web.collection = made.coll
            /\ \A c \in HandlerCalls :
                  /\ c.coll = web.collection
                  /\ c.id = web.elem_id

\* An element request of a row collection has been answered: the factory was
\* called with owner_id and store_id, elem_id is the target.
C18_Witness ==
    /\ InHandler
    /\ web.pc = "responded"
    /\ web.status = 200
    /\ web.handler_class = "ElementHandler"
    /\ web.verb = "PUT"
    /\ DOMAIN web.kw = {<<"owner_id">>, <<"store_id">>}
    /\ DOMAIN The(web.path_kwargs)
           = {<<"owner_id">>, <<"store_id">>, <<"elem_id">>}
    /\ web.collection.kind = "row"
    /\ last.pc = "done"
    /\ last.op = "update"
    /\ last.id = web.elem_id

\* The request is served by collection c, with target elem_id.
ServedBy(handler_class, c, elem_id) ==
    /\ web.handler_class = handler_class
    /\ web.collection = c
    /\ web.elem_id = elem_id
    /\ \A call \in HandlerCalls : call.coll = c /\ call.id = elem_id

\* C19: in StoreServer a request for "/O/stores" is served by the store
\* collection of owner O and one for "/O/stores/E" by its element E; a
\* request for "/O/stores/S/keys" is served by the row collection of owner O
\* and store S and one for "/O/stores/S/keys/E" by its element E.
C19_StoreServerRouting ==
    (web.app = "StoreServer" /\ web.pc \in {"waiting", "responded"}) =>
        /\ \A O \in Owners :
              /\ web.path = <<"/">> \o O \o <<"/", "stores">> =>
                    ServedBy("CollectionHandler", StoreColl(O), None)
              /\ \A E \in ObjectIds :
                    web.path = <<"/">> \o O \o <<"/", "stores", "/">> \o E =>
                        ServedBy("ElementHandler", StoreColl(O), Some(E))
              /\ \A S \in StoreIds :
                    /\ web.path = <<"/">> \o O \o <<"/", "stores", "/">> \o S
                                      \o <<"/", "keys">> =>
                          ServedBy("CollectionHandler", RowColl(O, S), None)
                    /\ \A E \in ObjectIds :
                          web.path = <<"/">> \o O \o <<"/", "stores", "/">> \o S
                                         \o <<"/", "keys", "/">> \o E =>
                              ServedBy("ElementHandler", RowColl(O, S), Some(E))
        /\ web.status = 404 <=> web.path \in {<<"/">> \o O : O \in Owners}

\* An element of the rows of store "s:t" of owner o1 has been retrieved.
C19_Witness ==
    /\ web.app = "StoreServer"
    /\ web.pc = "responded"
    /\ web.status = 200
    /\ web.verb = "GET"
    /\ web.path = <<"/", "o1", "/", "stores", "/", "s", ":", "t", "/", "keys",
                    "/", "k">>
    /\ web.collection = RowColl(<<"o1">>, <<"s", ":", "t">>)
    /\ web.elem_id = Some(<<"k">>)
    /\ last.pc = "done"
    /\ last.op = "get"
    /\ last.coll = web.collection

\* A POST has been answered without an error.
Posted ==
    /\ web.pc = "responded"
    /\ web.verb = "POST"
    /\ web.status = 200

\* C20: a POST calls create(None, body) on the resolved collection and
\* answers {"id": X}, X being the identifier of the new object: a get of X
\* on the same collection then returns the object holding the posted body.
C20_CreateAnswersId ==
    Posted =>
        /\ last.pc = "done"
        /\ last.op = "create"
        /\ last.coll = web.collection
        /\ last.id = None
        /\ last.data = web.body
        /\ Len(web.written) = 1
        /\ web.written[1].kind = "json"
        /\ DOMAIN web.written[1].v = {"id"}
        /\ web.written[1].v.id.type = "string"
        /\ \E X \in ObjectIds :
              /\ web.written[1].v.id.v = X
              /\ get_value(mem, riak, web.collection, X).status = "ok"
              /\ get_value(mem, riak, web.collection, X).obj
                     = Some(Object(X, The(web.body)))

\* A request with the given verb is with an element handler in state pc.
ElementRequest(verb, pc) ==
    /\ web.pc = pc
    /\ web.handler_class = "ElementHandler"
    /\ web.verb = verb

\* The element the request names was in the collection when the handler
\* called the operation.
ElementWasPresent ==
    present(last.pre.mem, last.pre.riak, web.collection, The(web.elem_id))

\* C21: a PUT on an existing element answers {"success": true}, and only
\* after the collection's update has completed; afterwards the stored
\* object's data is the request body and its id is the original id.
C21_ReplaceExisting ==
    /\ ElementRequest("PUT", "waiting") => web.written = <<>>
    /\ (ElementRequest("PUT", "responded") /\ ElementWasPresent) =>
          /\ web.status = 200
          /\ web.written = <<JsonChunk([success |-> TRUE])>>
          /\ last.pc = "done"
          /\ last.op = "update"
          /\ last.status = "ok"
          /\ present(mem, riak, web.collection, The(web.elem_id))
          /\ stored_data(mem, riak, web.collection, The(web.elem_id))
                 = The(web.body)
          /\ get_value(mem, riak, web.collection, The(web.elem_id))
                 = [status |-> "ok",
                    obj |-> Some(Object(The(web.elem_id), The(web.body)))]

\* C22: a DELETE answers {"success": true}, and only after the collection's
\* delete has completed; afterwards the element is not in the collection.
C22_RemoveElement ==
    /\ ElementRequest("DELETE", "waiting") => web.written = <<>>
    /\ ElementRequest("DELETE", "responded") =>
          /\ web.status = 200
          /\ web.written = <<JsonChunk([success |-> TRUE])>>
          /\ last.pc = "done"
          /\ last.op = "delete"
          /\ last.status = "ok"
          /\ ~present(mem, riak, web.collection, The(web.elem_id))
          /\ get_value(mem, riak, web.collection, The(web.elem_id))
                 = [status |-> "ok", obj |-> None]

\* C23: a GET of an element answers the element's {id, data} when the id is
\* in the collection and a not-found response (404) when it is not.
C23_RetrieveElement ==
    ElementRequest("GET", "responded") =>
        IF ElementWasPresent
        THEN /\ web.status = 200
             /\ web.written
                    = <<JsonChunk(Object(The(web.elem_id),
                           stored_data(mem, riak, web.collection,
                                       The(web.elem_id))))>>
        ELSE web.status = 404

\* The reason string each handler method gives its errback
OperationReason ==
    CASE web.verb = "POST" -> [text |-> "Failed to create object.", arg |-> None]
      [] web.verb = "PUT" -> [text |-> "Failed to update %r", arg |-> web.elem_id]
      [] web.verb = "DELETE" -> [text |-> "Failed to delete %r", arg |-> web.elem_id]
      [] web.verb = "GET" /\ web.handler_class = "ElementHandler" ->
             [text |-> "Failed to retrieve %r", arg |-> web.elem_id]
      [] OTHER -> [text |-> "Failed to retrieve object.", arg |-> None]

\* The operation the handler called has failed and the request is answered.
OperationFailed ==
    /\ InHandler
    /\ web.pc = "responded"
    /\ last.pc = "done"
    /\ last.status \in {"failed", "raised"}

\* C24: for every verb, when the collection's operation fails, by raising
\* in the call or by a failed Deferred, the failure is logged and the
\* response has status 500 and the operation's reason string; no success
\* body is written.
C24_ErrorMapping ==
    OperationFailed =>
        /\ web.status = 500
        /\ web.reason = OperationReason
        /\ web.log # <<>>
        /\ Head(web.log) = "Failure"
        /\ web.handler_class = "ElementHandler" \/ web.verb = "POST" =>
              web.written = <<>>

----------------------------------------------------------------------------
(* write_objects on a list of elements, as the handler test calls it *)

MaxListLen == 4     \* elements of a list given to write_objects

\* The elements all() may resolve to: objects, and None
Elements ==
    {None, Some(Object(<<"k">>, ("foo" :> 1))),
     Some(Object(<<"u1">>, ("bar" :> 2)))}

BaseHandler_write_objects ==
    /\ web.pc = "objs"
    /\ web' = [web EXCEPT !.pc = "written", !.status = 200,
                          !.written = write_objects(web.objs)]
    /\ UNCHANGED <<collVars, url, heap, hist>>

InitWrite ==
    /\ web \in {[pc |-> "objs", objs |-> objs, status |-> 0, written |-> <<>>] :
                  objs \in SeqsUpTo(Elements, MaxListLen)}
    /\ url = IdleUrl
    /\ backend = "inmemory"
    /\ mem = EmptyMem
    /\ riak = EmptyRiak
    /\ uuids = 0
    /\ calls = [s \in Slots |-> IdleCall]
    /\ reactor = <<>>
    /\ heap = NoHeap
    /\ hist = NoHist
    /\ last = IdleCall
    /\ scope = {}

NextWrite == BaseHandler_write_objects

SpecWrite == InitWrite /\ [][NextWrite]_vars

\* The elements of a list that are not None, in the order of the list
RECURSIVE NotNone(_)
NotNone(objs) ==
    IF objs = <<>> THEN <<>>
    ELSE (IF Head(objs) = None THEN <<>> ELSE <<The(Head(objs))>>)
             \o NotNone(Tail(objs))

\* C25: write_objects writes, in the order of the list, each element that
\* is not None followed by exactly one "\n"; an element that is None
\* produces no output, neither object nor newline, and the listing does not
\* fail.
C25_NewlineDelimited ==
    web.pc = "written" =>
        LET objs == NotNone(web.objs)
        IN  /\ web.status = 200
            /\ Len(web.written) = 2 * Len(objs)
            /\ \A i \in 1..Len(objs) :
                  /\ web.written[2 * i - 1] = JsonChunk(objs[i])
                  /\ web.written[2 * i] = TextChunk("\n")

\* A list with a None between two objects has been written.
C25_Witness ==
    /\ web.pc = "written"
    /\ Len(web.objs) = 3
    /\ web.objs[1] # None
    /\ web.objs[2] = None
    /\ web.objs[3] # None
    /\ web.objs[1] # web.objs[3]
    /\ Len(web.written) = 4

----------------------------------------------------------------------------
(* Specification: the in-memory collections under a reactor that keeps
   running its zero-delay calls *)

InitTick ==
    /\ Init
    /\ backend = "inmemory"

NextTick ==
    \/ \E c \in scope, id \in {None} \cup {Some(i) : i \in ObjectIds}, data \in Data :
           Ready /\ InMemoryCollection_create(1, c, id, data) /\ UNCHANGED <<url, web, heap, hist>>
    \/ \E c \in scope, id \in {None} \cup {Some(i) : i \in ObjectIds}, data \in Data :
           Ready /\ InMemoryCollection_update(1, c, id, data) /\ UNCHANGED <<url, web, heap, hist>>
    \/ \E c \in scope, id \in ObjectIds :
           Ready /\ InMemoryCollection_delete(1, c, id) /\ UNCHANGED <<url, web, heap, hist>>
    \/ \E c \in scope, id \in ObjectIds :
           Ready /\ InMemoryCollection_get(1, c, id) /\ UNCHANGED <<url, web, heap, hist>>
    \/ \E c \in scope : Ready /\ InMemoryCollection_all_keys(1, c) /\ UNCHANGED <<url, web, heap, hist>>
    \/ \E c \in scope : Ready /\ InMemoryCollection_all(1, c) /\ UNCHANGED <<url, web, heap, hist>>
    \/ Tick /\ UNCHANGED <<url, web, heap, hist>>
    \/ Return /\ UNCHANGED <<url, web, heap, hist>>

\* The reactor runs: a queued zero-delay call is run in the end.
SpecTick == InitTick /\ [][NextTick]_vars /\ WF_vars(Tick /\ UNCHANGED <<url, web, heap, hist>>)

\* The Deferred of the call in slot s has been returned and has not fired.
Pending(s) == calls[s].pc = "deferred"

\* The value a completed in-memory operation computes on the state it was
\* called on
Computed(r) ==
    LET d == SelfData(r.pre.mem, r.coll)
    IN  CASE r.op = "get" -> r.obj = _get_data(d, r.coll, The(r.id))
          [] r.op = "delete" -> r.obj = _get_data(d, r.coll, The(r.id))
          [] r.op = "update" -> r.obj = Some(Object(The(r.id), The(r.data)))
          [] r.op = "create" ->
                 r.obj = Some(Object(IF IsNone(r.id) THEN uuid4(r.pre.uuids + 1)
                                     ELSE The(r.id), The(r.data)))
          [] r.op = "all_keys" ->
                 {r.keys[i] : i \in 1..Len(r.keys)} = _get_keys(d, r.coll)
          [] r.op = "all" ->
                 {r.objs[i] : i \in 1..Len(r.objs)}
                     = {_get_data(d, r.coll, k) : k \in _get_keys(d, r.coll)}

\* A call is made and returns: its Deferred has not fired.
NotFiredByCall ==
    (Ready /\ last'.pc = "done") => last'.status = "raised"

\* The reactor's call fires the Deferred of the call queued first, with the
\* value computed in the call, and the Deferred is not fired again.
FiredByTick ==
    (last.pc # "done" /\ last'.pc = "done" /\ last'.status # "raised") =>
        /\ reactor # <<>>
        /\ Pending(Head(reactor))
        /\ last' = [calls[Head(reactor)] EXCEPT !.pc = "done"]
        /\ Computed(last')
        /\ reactor' = Tail(reactor)
        /\ calls'[Head(reactor)].pc = "idle"

\* Each pending Deferred has exactly one zero-delay call queued.
OneCallEach ==
    /\ \A s \in Slots :
          Cardinality({i \in 1..Len(reactor) : reactor[i] = s})
              = IF Pending(s) THEN 1 ELSE 0
    /\ \A s \in Slots : Pending(s) => last.pc = "idle"

\* C27: the result of an in-memory operation is not available when the call
\* returns; it becomes available, once and with the value computed in the
\* call, when the reactor runs the zero-delay call, and it does become
\* available when the reactor advances.
C27_SimulatedAsynchrony ==
    /\ [][NotFiredByCall /\ FiredByTick]_vars
    /\ []OneCallEach
    /\ \A s \in Slots : Pending(s) ~> (~Pending(s) /\ last.pc = "done")

\* The Deferred of a get of a stored object has fired with the object.
C27_Witness ==
    /\ backend = "inmemory"
    /\ last.pc = "done"
    /\ last.op = "get"
    /\ last.status = "ok"
    /\ last.obj # None
    /\ reactor = <<>>
    /\ ~Pending(1)

----------------------------------------------------------------------------
(* The in-memory collection with its values held by reference: a data value
   is a Python object (a cell of the heap) that may hold a nested object (its
   sub cell); the collection's dict holds the address of what it stored, and
   the client holds the addresses of what it passed and of what it was
   returned. *)

MaxCells == 6       \* Python objects that may be allocated

\* The value of a cell after the client has changed it
Changed == "changed"

Cell(val, sub) == [val |-> val, sub |-> sub]

\* Mutant: copy.copy in place of deepcopy: the nested object is shared.
deepcopy_shallow(cells, a) ==
    [cells |-> Append(cells, cells[a]), addr |-> Len(cells) + 1]

\* copy.deepcopy(x): a new object, with a new nested object if x has one
deepcopy(cells, a) ==
    IF cells[a].sub = 0
    THEN [cells |-> Append(cells, cells[a]), addr |-> Len(cells) + 1]
    ELSE [cells |-> cells \o <<cells[cells[a].sub],
                                Cell(cells[a].val, Len(cells) + 1)>>,
          addr |-> Len(cells) + 2]

\* What an object reads as: its value and the value of its nested object
Value(cells, a) ==
    <<cells[a].val, IF cells[a].sub = 0 THEN "" ELSE cells[cells[a].sub].val>>

\* The object reads as it did when it was made or copied.
Intact(cells, a) == Changed \notin {Value(cells, a)[1], Value(cells, a)[2]}

\* The objects the client can reach from what it holds
Reach(h) == h.held \cup ({h.cells[a].sub : a \in h.held} \ {0})

\* The collection of the run
CopyColl == StoreColl(<<"o1">>)

\* The client makes a data value: {"v": val}, or {"v": val, "sub": [val]}.
MakeData(val, nested) ==
    /\ Ready
    /\ Len(heap.cells) + (IF nested THEN 2 ELSE 1) <= MaxCells
    /\ heap' = IF nested
               THEN [cells |-> heap.cells \o <<Cell(val, 0),
                                               Cell(val, Len(heap.cells) + 1)>>,
                     held |-> heap.held \cup {Len(heap.cells) + 2}]
               ELSE [cells |-> Append(heap.cells, Cell(val, 0)),
                     held |-> heap.held \cup {Len(heap.cells) + 1}]
    /\ UNCHANGED <<collVars, url, web, hist>>

\* The client changes an object it can reach.
Mutate(a) ==
    /\ a \in Reach(heap)
    /\ heap.cells[a].val # Changed
    /\ heap' = [heap EXCEPT !.cells[a].val = Changed]
    /\ UNCHANGED <<collVars, url, web, hist>>

\* _set_data: self._data[key] = deepcopy(data); the response is
\* _format_data(object_id, self._data[key]), a deepcopy again.
Ref_set_data(s, r, c, object_id, a) ==
    LET stored == deepcopy(heap.cells, a)
        response == deepcopy(stored.cells, stored.addr)
    IN  /\ Len(response.cells) <= MaxCells
        /\ mem' = WithSelfData(mem, c,
                      _set_data(SelfData(mem, c), c, object_id, stored.addr))
        /\ heap' = [heap EXCEPT !.cells = response.cells]
        /\ defer_async(s, [r EXCEPT !.status = "ok",
               !.obj = Some(_format_data(object_id, response.addr))])

\* _get_data: None, or _format_data(object_id, self._data[key]), a deepcopy
Ref_get_data(cells, d, c, object_id) ==
    LET key == _id_to_key(c, object_id)
    IN  IF ~DictHas(d, key) THEN [cells |-> cells, obj |-> None]
        ELSE LET copy == deepcopy(cells, d[key])
             IN  [cells |-> copy.cells,
                  obj |-> Some(_format_data(object_id, copy.addr))]

Ref_create(s, c, object_id, a) ==
    /\ Ready
    /\ a \in heap.held
    /\ Ref_set_data(s, NewCall("create", c, Some(object_id), Some(a)),
                    c, object_id, a)
    /\ UNCHANGED <<scope, backend, riak, uuids, url, web, hist>>

Ref_update(s, c, object_id, a) ==
    /\ Ready
    /\ a \in heap.held
    /\ LET r == NewCall("update", c, Some(object_id), Some(a))
       IN  IF ~update_asserts(SelfData(mem, c), c, Some(object_id))
           THEN /\ mem' = InMemoryCollectionBackend_get(mem, c)
                /\ Raise(s, r)
                /\ UNCHANGED heap
           ELSE Ref_set_data(s, r, c, object_id, a)
    /\ UNCHANGED <<scope, backend, riak, uuids, url, web, hist>>

Ref_get(s, c, object_id) ==
    /\ Ready
    /\ LET g == Ref_get_data(heap.cells, SelfData(mem, c), c, object_id)
       IN  /\ Len(g.cells) <= MaxCells
           /\ heap' = [heap EXCEPT !.cells = g.cells]
           /\ defer_async(s, [NewCall("get", c, Some(object_id), None)
                                 EXCEPT !.status = "ok", !.obj = g.obj])
    /\ mem' = InMemoryCollectionBackend_get(mem, c)
    /\ UNCHANGED <<scope, backend, riak, uuids, url, web, hist>>

Ref_delete(s, c, object_id) ==
    /\ Ready
    /\ LET d == SelfData(mem, c)
           g == Ref_get_data(heap.cells, d, c, object_id)
       IN  /\ Len(g.cells) <= MaxCells
           /\ heap' = [heap EXCEPT !.cells = g.cells]
           /\ mem' = WithSelfData(mem, c, DictPop(d, _id_to_key(c, object_id)))
           /\ defer_async(s, [NewCall("delete", c, Some(object_id), None)
                                 EXCEPT !.status = "ok", !.obj = g.obj])
    /\ UNCHANGED <<scope, backend, riak, uuids, url, web, hist>>

RECURSIVE Ref_all_data(_, _, _, _)
\* [self._get_data(object_id) for object_id in keys]
Ref_all_data(cells, d, c, keys) ==
    IF keys = <<>> THEN [cells |-> cells, objs |-> <<>>]
    ELSE LET g == Ref_get_data(cells, d, c, Head(keys))
             rest == Ref_all_data(g.cells, d, c, Tail(keys))
         IN  [cells |-> rest.cells, objs |-> <<g.obj>> \o rest.objs]

Ref_all(s, c) ==
    /\ Ready
    /\ \E keys \in Orders(_get_keys(SelfData(mem, c), c)) :
         LET g == Ref_all_data(heap.cells, SelfData(mem, c), c, keys)
         IN  /\ Len(g.cells) <= MaxCells
             /\ heap' = [heap EXCEPT !.cells = g.cells]
             /\ defer_async(s, [NewCall("all", c, None, None)
                                   EXCEPT !.status = "ok", !.objs = g.objs])
    /\ mem' = InMemoryCollectionBackend_get(mem, c)
    /\ UNCHANGED <<scope, backend, riak, uuids, url, web, hist>>

\* The objects an outcome hands to the client
Returned(r) ==
    (IF r.obj = None THEN {} ELSE {The(r.obj).data})
        \cup {The(r.objs[i]).data : i \in 1..Len(r.objs)}

\* The client's callback takes the outcome and holds what it was returned.
Take ==
    /\ last.pc = "done"
    /\ heap' = [heap EXCEPT !.held = @ \cup Returned(last)]
    /\ last' = IdleCall
    /\ UNCHANGED <<scope, backend, mem, riak, uuids, calls, reactor, url, web,
                   hist>>

InitCopy ==
    /\ url = IdleUrl
    /\ web = IdleWeb
    /\ hist = NoHist
    /\ heap = NoHeap
    /\ backend = "inmemory"
    /\ mem = EmptyMem
    /\ riak = EmptyRiak
    /\ uuids = 0
    /\ calls = [s \in Slots |-> IdleCall]
    /\ reactor = <<>>
    /\ last = IdleCall
    /\ scope = {CopyColl}

NextCopy ==
    \/ \E val \in {"foo", "bar"}, nested \in BOOLEAN : MakeData(val, nested)
    \/ \E a \in 1..MaxCells : Mutate(a)
    \/ \E a \in {x \in heap.held : Intact(heap.cells, x)} :
           Ref_create(1, CopyColl, <<"k">>, a)
    \/ \E a \in {x \in heap.held : Intact(heap.cells, x)} :
           Ref_update(1, CopyColl, <<"k">>, a)
    \/ Ref_get(1, CopyColl, <<"k">>)
    \/ Ref_delete(1, CopyColl, <<"k">>)
    \/ Ref_all(1, CopyColl)
    \/ Tick /\ UNCHANGED <<url, web, heap, hist>>
    \/ Take

SpecCopy == InitCopy /\ [][NextCopy]_vars

\* What the collection has stored, read through its references
StoredView(m, h) ==
    [key \in DOMAIN SelfData(m, CopyColl) |->
        Value(h.cells, SelfData(m, CopyColl)[key])]

\* What get(object_id) reads now
ReadNow(object_id) ==
    IF DictHas(SelfData(mem, CopyColl), object_id)
    THEN Some(Object(object_id, StoredView(mem, heap)[object_id]))
    ELSE None

\* An object as it reads
Read(obj) ==
    IF obj = None THEN None
    ELSE Some(Object(The(obj).id, Value(heap.cells, The(obj).data)))

\* No change the client made shows in what is stored or in a result on its
\* way, and a get or all that has completed has read what is stored.
Independent ==
    /\ \A key \in DOMAIN StoredView(mem, heap) :
          Intact(heap.cells, SelfData(mem, CopyColl)[key])
    /\ \A s \in Slots : \A a \in Returned(calls[s]) : Intact(heap.cells, a)
    /\ \A a \in Returned(last) : Intact(heap.cells, a)
    /\ Done("get") => Read(last.obj) = ReadNow(The(last.id))
    /\ Done("all") =>
          {Read(last.objs[i]) : i \in 1..Len(last.objs)}
              = {ReadNow(key) : key \in DOMAIN StoredView(mem, heap)}

\* What is stored changes in the call of a create, update or delete only.
OnlyByWrites ==
    StoredView(mem, heap)' # StoredView(mem, heap) =>
        /\ calls[1].pc = "idle"
        /\ calls'[1].pc = "deferred"
        /\ calls'[1].op \in {"create", "update", "delete"}

\* C26: in the in-memory backend, changing the data passed to create or
\* update after the call, or changing an object returned by create, get,
\* update, delete or all, never changes what later get and all calls return;
\* what is stored changes only through create, update and delete.
C26_CopyIndependence ==
    /\ []Independent
    /\ [][OnlyByWrites]_vars

\* The client has changed the data it passed to create and the object create
\* returned, and a get made afterwards has returned the object as stored.
C26_Witness ==
    /\ Done("get")
    /\ last.obj # None
    /\ Cardinality(heap.held) >= 2
    /\ \A a \in Reach(heap) : heap.cells[a].val = Changed
    /\ Read(last.obj) = ReadNow(<<"k">>)
    /\ The(Read(last.obj)).data[1] \in {"foo", "bar"}

----------------------------------------------------------------------------
(* Specification: two clients of the persistent backend whose operations on
   one collection interleave step by step.  The first updates an object or
   lists the collection through the application; the second updates or
   deletes the same object. *)

\* The data of the objects stored before the clients start
Old == ("old" :> 0)

\* The object both clients work on, and the ids stored at the start
RaceId == <<"k">>
RaceIds == {<<"k">>, <<"t", ":", "k">>}

\* The collections a run may be about
RaceColls ==
    {StoreColl(<<"o1">>), RowColl(<<"o1">>, <<"s">>),
     RowColl(<<"o1">>, <<"s", ":", "t">>)}

\* The collection of the run
RaceColl == CHOOSE c \in scope : TRUE

\* The data each client's update carries
UpdateData(s) == IF s = 1 THEN ("foo" :> 1) ELSE ("bar" :> 2)

\* The clients have been answered nothing and no Riak step has been taken.
InitHist == [pc |-> "clients", out |-> <<IdleCall, IdleCall>>, log |-> <<>>]

\* Client s has not made its call yet.
NotYet(s) == calls[s].pc = "idle" /\ hist.out[s].pc = "idle"

\* The Riak step of the operation in slot s is noted, with the key it is
\* about, and so is the outcome if the step ends the operation.
Logged(s) ==
    hist' = [hist EXCEPT
                !.log = Append(@, [slot |-> s, step |-> calls[s].pc,
                                   id |-> IF calls[s].pc = "fetch"
                                          THEN Head(calls[s].todo)
                                          ELSE IF calls[s].id = None THEN <<>>
                                          ELSE The(calls[s].id)]),
                !.out[s] = IF calls'[s].pc = "idle" THEN last' ELSE @]

InitConc ==
    /\ url = IdleUrl
    /\ heap = NoHeap
    /\ hist = InitHist
    /\ backend = "riak"
    /\ mem = EmptyMem
    /\ scope \in {{c} : c \in RaceColls}
    /\ riak = WithBucket(EmptyRiak, RaceColl,
                  [key \in {RiakKey(RaceColl, id) : id \in RaceIds} |-> Old])
    /\ uuids = 0
    /\ calls = [s \in Slots |-> IdleCall]
    /\ reactor = <<>>
    /\ last = IdleCall
    /\ web = IdleApi("StoreServer", _build_routes(StoreServer_collections))

NextConc ==
    \/ \E s \in {1, 2} :
           /\ NotYet(s)
           /\ Riak_update(s, RaceColl, Some(RaceId), UpdateData(s))
           /\ UNCHANGED <<url, web, heap, hist>>
    \/ /\ NotYet(2)
       /\ Riak_delete(2, RaceColl, RaceId)
       /\ UNCHANGED <<url, web, heap, hist>>
    \/ /\ NotYet(1)
       /\ CollectionHandler_get(CollPath(RaceColl))
    \/ \E s \in Slots : RiakLoad(s) /\ Logged(s) /\ UNCHANGED <<url, web, heap>>
    \/ \E s \in Slots : RiakSave(s) /\ Logged(s) /\ UNCHANGED <<url, web, heap>>
    \/ \E s \in Slots : RiakDelete(s) /\ Logged(s) /\ UNCHANGED <<url, web, heap>>
    \/ \E s \in Slots : RiakKeys(s) /\ Logged(s) /\ UNCHANGED <<url, web, heap>>
    \/ \E s \in Slots : ListFetch(s) /\ Logged(s)
    \/ RespondTo(hist.out[1])

SpecConc == InitConc /\ [][NextConc]_vars

----------------------------------------------------------------------------
(* Claims about interleaved operations of the persistent backend *)

\* Client s called op and has been answered.
Answered(s, op) == hist.out[s].pc = "done" /\ hist.out[s].op = op

\* The writes issued so far, in the order Riak took them
Writes == SelectSeq(hist.log, LAMBDA e : e.step \in {"save", "delete"})

\* What is stored under the object both clients work on
StoredNow == load(riak, RaceColl, RiakKey(RaceColl, RaceId))

\* C28: when two updates of one present id interleave, both complete
\* successfully and the data stored in the end is the data of the update
\* whose save happened last.
C28_LastWriterWins ==
    (Answered(1, "update") /\ Answered(2, "update")) =>
        /\ hist.out[1].status = "ok"
        /\ hist.out[2].status = "ok"
        /\ Writes # <<>>
        /\ ~IsNone(StoredNow)
        /\ The(StoredNow).data = UpdateData(Writes[Len(Writes)].slot)

\* delete's removal step has been taken.
Removed == \E i \in 1..Len(Writes) : Writes[i].step = "delete"

\* The removal step was the last write issued.
RemovedLast == Writes # <<>> /\ Writes[Len(Writes)].step = "delete"

\* C29: when an update and a delete of one present id interleave, the object
\* is absent once both have completed if the removal was the last write, and
\* the update never brings back an object the delete has removed.
C29_UpdateDeleteRace ==
    /\ (Answered(1, "update") /\ Answered(2, "delete") /\ RemovedLast)
           => IsNone(StoredNow)
    /\ Removed => IsNone(StoredNow)

\* The LIST request of the first client has been answered.
Listed == web.pc = "responded" /\ Answered(1, "all")

\* The steps at which all() fetched the object the second client works on
\* after that object was removed, the removal coming after the key list.
RacedFetches ==
    {k \in 1..Len(hist.log) :
        /\ hist.log[k] = [slot |-> 1, step |-> "fetch", id |-> RaceId]
        /\ \E i, j \in 1..Len(hist.log) :
               /\ i < j /\ j < k
               /\ hist.log[i].slot = 1 /\ hist.log[i].step = "keys"
               /\ hist.log[j].step = "delete"}

\* The place in all()'s iterator of the element fetched at step k
FetchNo(k) ==
    Cardinality({m \in 1..k : hist.log[m].slot = 1 /\ hist.log[m].step = "fetch"})

\* The objects the response body carries
WrittenObjects ==
    {web.written[n].v : n \in {m \in 1..Len(web.written) : web.written[m].kind = "json"}}

\* The data stored under some id at some moment of the run
StoredSometime ==
    {Old} \cup {UpdateData(hist.log[j].slot) :
                    j \in {m \in 1..Len(hist.log) : hist.log[m].step = "save"}}

\* C30: an element deleted between all()'s key list and its fetch resolves
\* to None and is not written, the LIST request succeeds, and every object
\* written was stored at some moment of the listing.
C30_ListingToleratesDeletion ==
    Listed =>
        /\ RacedFetches # {} =>
               /\ web.status = 200
               /\ hist.out[1].status = "ok"
               /\ \A k \in RacedFetches : IsNone(hist.out[1].objs[FetchNo(k)])
               /\ \A o \in WrittenObjects : o.id # RaceId
        /\ \A o \in WrittenObjects :
               /\ o.id \in RaceIds
               /\ o.data \in IF o.id = RaceId THEN StoredSometime ELSE {Old}

\* The object was deleted between the key list and its fetch, and the other
\* object of the collection was written.
C30_Witness ==
    /\ Listed
    /\ RacedFetches # {}
    /\ web.status = 200
    /\ WrittenObjects # {}

----------------------------------------------------------------------------
(* Claims about the LIST request *)

\* The LIST request is with its handler and all() has elements that have
\* not resolved yet.
Listing ==
    /\ web.pc = "waiting"
    /\ web.verb = "GET"
    /\ web.handler_class = "CollectionHandler"
    /\ \E s \in Slots : calls[s].op = "all" /\ calls[s].pc # "idle"

\* An object has been written to the response.
ObjectWritten == \E n \in 1..Len(web.written) : web.written[n].kind = "json"

\* C31: in a LIST request no object is written to the response before every
\* element of the all() result has resolved.
C31_WaitForAll == Listing => ~ObjectWritten

----------------------------------------------------------------------------
(* Specification: the application over the persistent backend, where the
   load() of an element of all() may fail (Riak answers with an error) *)

\* load() of the element all() fetches next fails: the Deferred of get(key)
\* fails, "obj = yield obj_deferred" raises in write_objects and the
\* listing ends there.
ListFetchFails(s) ==
    /\ web.pc = "waiting"
    /\ calls[s].pc = "fetch"
    /\ Complete(s, calls[s], "failed", None, <<>>, <<>>)
    /\ UNCHANGED <<scope, backend, mem, riak, uuids, reactor, url, web, heap, hist>>

InitFail == InitApi /\ backend = "riak"

NextFail ==
    \/ \E path \in RequestPaths : CollectionHandler_get(path)
    \/ \E path \in RequestPaths, data \in Data : CollectionHandler_post(path, data)
    \/ \E s \in Slots : RiakSave(s) /\ UNCHANGED <<url, web, heap, hist>>
    \/ \E s \in Slots : RiakKeys(s) /\ UNCHANGED <<url, web, heap, hist>>
    \/ \E s \in Slots : ListFetch(s) /\ UNCHANGED hist
    \/ \E s \in Slots : ListFetchFails(s)
    \/ Respond
    \/ Close

SpecFail == InitFail /\ [][NextFail]_vars

\* The LIST request has been answered after the fetch of an element failed.
FetchFailed ==
    /\ web.pc = "responded"
    /\ web.verb = "GET"
    /\ web.handler_class = "CollectionHandler"
    /\ last.pc = "done" /\ last.op = "all" /\ last.status = "failed"

\* C32: in a LIST request over the persistent backend, when the fetch of an
\* element fails the whole listing fails: no element is fetched after it,
\* the request ends with 500 "Failed to retrieve object." and the failure
\* is logged.
C32_ListingFails ==
    /\ (last.op = "all" /\ last.status = "failed") => Quiet
    /\ FetchFailed =>
           /\ web.status = 500
           /\ web.reason = [text |-> "Failed to retrieve object.", arg |-> None]
           /\ web.log = <<"Failure">>

\* The fetch of the second element failed after the first was written.
C32_Witness == FetchFailed /\ ObjectWritten

----------------------------------------------------------------------------
(* Specification: a client of the in-memory collections that makes a second
   call before the reactor has delivered the result of the first *)

\* The first call has been made and the reactor has not run since.
Second == calls[1].pc = "deferred" /\ calls[2].pc = "idle" /\ Len(reactor) = 1

NextBatch ==
    \/ \E c \in scope, id \in ObjectIds, data \in Data :
           Ready /\ InMemoryCollection_create(1, c, Some(id), data) /\ UNCHANGED <<url, web, heap, hist>>
    \/ \E c \in scope, id \in ObjectIds, data \in Data :
           Ready /\ InMemoryCollection_update(1, c, Some(id), data) /\ UNCHANGED <<url, web, heap, hist>>
    \/ \E c \in scope, id \in ObjectIds :
           Ready /\ InMemoryCollection_delete(1, c, id) /\ UNCHANGED <<url, web, heap, hist>>
    \/ \E c \in scope, id \in ObjectIds :
           Ready /\ InMemoryCollection_get(1, c, id) /\ UNCHANGED <<url, web, heap, hist>>
    \/ \E c \in scope : Ready /\ InMemoryCollection_all_keys(1, c) /\ UNCHANGED <<url, web, heap, hist>>
    \/ \E c \in scope : Ready /\ InMemoryCollection_all(1, c) /\ UNCHANGED <<url, web, heap, hist>>
    \/ \E c \in scope, id \in ObjectIds, data \in Data :
           Second /\ InMemoryCollection_create(2, c, Some(id), data) /\ UNCHANGED <<url, web, heap, hist>>
    \/ \E c \in scope, id \in ObjectIds, data \in Data :
           Second /\ InMemoryCollection_update(2, c, Some(id), data) /\ UNCHANGED <<url, web, heap, hist>>
    \/ \E c \in scope, id \in ObjectIds :
           Second /\ InMemoryCollection_delete(2, c, id) /\ UNCHANGED <<url, web, heap, hist>>
    \/ \E c \in scope, id \in ObjectIds :
           Second /\ InMemoryCollection_get(2, c, id) /\ UNCHANGED <<url, web, heap, hist>>
    \/ \E c \in scope : Second /\ InMemoryCollection_all_keys(2, c) /\ UNCHANGED <<url, web, heap, hist>>
    \/ \E c \in scope : Second /\ InMemoryCollection_all(2, c) /\ UNCHANGED <<url, web, heap, hist>>
    \/ Tick /\ UNCHANGED <<url, web, heap, hist>>
    \/ Return /\ UNCHANGED <<url, web, heap, hist>>

\* The store collections of two owners, or the row collections of two
\* stores of one owner (they share the owner's dict)
InitBatch ==
    /\ InitTick
    /\ scope \in {{StoreColl(o) : o \in Owners},
                  {RowColl(<<"o1">>, s) : s \in StoreIds}}

SpecBatch == InitBatch /\ [][NextBatch]_vars

\* The stored state an operation leaves when it is applied to the state m
Effect(m, r) ==
    LET c == r.coll
        d == SelfData(m, c)
        object_id == IF IsNone(r.id) THEN uuid4(r.pre.uuids + 1) ELSE The(r.id)
    IN  CASE r.op \in {"create", "update"} ->
                 WithSelfData(m, c, DictSet(d, _id_to_key(c, object_id), The(r.data)))
          [] r.op = "delete" ->
                 WithSelfData(m, c, DictPop(d, _id_to_key(c, object_id)))
          [] OTHER -> InMemoryCollectionBackend_get(m, c)

\* Both calls have been made and the reactor has not run.
BothCalled == Pending(1) /\ Pending(2) /\ reactor = <<1, 2>>

\* The stored state is that of the first operation, then the second.
AppliedInOrder ==
    BothCalled =>
        /\ Stored(calls[2].pre.mem, riak)
               = Stored(Effect(calls[1].pre.mem, calls[1]), riak)
        /\ Stored(mem, riak) = Stored(Effect(calls[2].pre.mem, calls[2]), riak)

\* The value delivered is the one computed on the state the operation was
\* called on, whatever was called after it.
DeliveredAsCalled ==
    (last.pc = "done" /\ last.status = "ok") => Computed(last)

\* The reactor delivers the results in the order of the calls.
DeliveredInOrder ==
    BothCalled => (last'.pc = "done" => last' = [calls[1] EXCEPT !.pc = "done"])

\* C33: an in-memory operation takes effect and computes its result when it
\* is called: for two calls made before the reactor runs, the stored state
\* is that of applying the first and then the second, and the value
\* delivered for the first is that of the state before the second.
C33_EffectAtCall ==
    /\ []AppliedInOrder
    /\ []DeliveredAsCalled
    /\ [][DeliveredInOrder]_vars

\* get(id) of a stored object was called before delete(id): the object is
\* delivered although it is stored no more.
C33_Witness ==
    /\ last.pc = "done" /\ last.op = "get" /\ ~IsNone(last.obj)
    /\ Pending(2) /\ calls[2].op = "delete"
    /\ calls[2].coll = last.coll /\ calls[2].id = last.id
    /\ ~present(mem, riak, last.coll, The(last.id))

----------------------------------------------------------------------------
(* Claims about stored state, keys and ids *)

\* A create in a row collection of the persistent backend has completed.
RowCreated == Done("create") /\ backend = "riak" /\ last.coll.kind = "row"

\* C34: the persistent row key round-trips for every store id and object
\* id: create(X, data) in the row collection of store S succeeds, get(X) in
\* S then returns {id: X, data}, all_keys() of S contains X and no row
\* collection of another store id lists X.
C34_RowKeyRoundTrip ==
    RowCreated =>
        /\ last.status = "ok"
        /\ get_value(mem, riak, last.coll, CreatedId)
               = [status |-> "ok",
                  obj |-> Some(Object(CreatedId, The(last.data)))]
        /\ CreatedId \in listed(mem, riak, last.coll)
        /\ \A c \in OtherStores(last.coll) : CreatedId \notin listed(mem, riak, c)

\* A create, update or delete has ended in a failure: its Deferred failed,
\* or the call itself raised.
WriteFailed ==
    /\ last.pc = "done"
    /\ last.op \in {"create", "update", "delete"}
    /\ last.status \in {"failed", "raised"}

\* C35: when create, update or delete ends in a failure, the stored objects
\* and their data are what they were before the operation was called.
C35_UnchangedOnError ==
    WriteFailed => Stored(mem, riak) = Stored(last.pre.mem, last.pre.riak)

\* The list all_keys() of collection c makes of the stored keys, taken in
\* one order: each key of the collection is translated to its id.
KeyList(m, b, c) ==
    IF backend = "inmemory"
    THEN LET d == SelfData(m, c)
             order == CHOOSE q \in Orders({k \in DOMAIN d : _is_my_key(c, k)}) : TRUE
         IN  [i \in 1..Len(order) |-> _key_to_id(c, order[i])]
    ELSE ListedKeys(c, CHOOSE q \in Orders(DOMAIN Bucket(b, c)) : TRUE)

NoDuplicate(q) == \A i, j \in 1..Len(q) : i # j => q[i] # q[j]

\* How many objects the backend holds
ObjectCount(m, b) == IF backend = "inmemory" THEN MemCount(m) ELSE RiakCount(b)

\* A create with an id the collection held already has completed.
Recreated ==
    /\ Done("create")
    /\ ~IsNone(last.id)
    /\ present(last.pre.mem, last.pre.riak, last.coll, The(last.id))

\* C36: all_keys() of a collection never contains an id twice, and
\* create(id, data) with an id that is present replaces the data of that
\* object and leaves the number of objects and of ids as it was.
C36_IdUniqueness ==
    /\ \A c \in scope : NoDuplicate(KeyList(mem, riak, c))
    /\ Done("all_keys") => NoDuplicate(last.keys)
    /\ Recreated =>
           /\ present(mem, riak, last.coll, The(last.id))
           /\ stored_data(mem, riak, last.coll, The(last.id)) = The(last.data)
           /\ ObjectCount(mem, riak) = ObjectCount(last.pre.mem, last.pre.riak)
           /\ \A c \in scope :
                  Len(KeyList(mem, riak, c))
                      = Len(KeyList(last.pre.mem, last.pre.riak, c))

\* An object was created again with other data while another object is held.
C36_Witness ==
    /\ Recreated
    /\ stored_data(last.pre.mem, last.pre.riak, last.coll, The(last.id))
           # The(last.data)
    /\ Len(KeyList(mem, riak, last.coll)) = 2

----------------------------------------------------------------------------
(* Specification: the sequential client that names the id of every object
   it creates and posts data that has an 'id' field of its own *)

\* JSON objects whose 'id' field names another id, stored or not
IdData == {("id" :> <<"k">>), ("id" :> <<"z">>)}

NextId ==
    \/ \E c \in scope, id \in {Some(i) : i \in GivenIds}, data \in IdData :
           Ready /\ InMemoryCollection_create(1, c, id, data) /\ UNCHANGED <<url, web, heap, hist>>
    \/ \E c \in scope, id \in {Some(i) : i \in GivenIds}, data \in IdData :
           Ready /\ InMemoryCollection_update(1, c, id, data) /\ UNCHANGED <<url, web, heap, hist>>
    \/ \E c \in scope, id \in GivenIds :
           Ready /\ InMemoryCollection_delete(1, c, id) /\ UNCHANGED <<url, web, heap, hist>>
    \/ \E c \in scope, id \in GivenIds :
           Ready /\ InMemoryCollection_get(1, c, id) /\ UNCHANGED <<url, web, heap, hist>>
    \/ \E c \in scope : Ready /\ InMemoryCollection_all_keys(1, c) /\ UNCHANGED <<url, web, heap, hist>>
    \/ \E c \in scope : Ready /\ InMemoryCollection_all(1, c) /\ UNCHANGED <<url, web, heap, hist>>
    \/ Tick /\ UNCHANGED <<url, web, heap, hist>>
    \/ \E c \in scope, id \in {Some(i) : i \in GivenIds}, data \in IdData :
           Ready /\ Riak_create(1, c, id, data) /\ UNCHANGED <<url, web, heap, hist>>
    \/ \E c \in scope, id \in {Some(i) : i \in GivenIds}, data \in IdData :
           Ready /\ Riak_update(1, c, id, data) /\ UNCHANGED <<url, web, heap, hist>>
    \/ \E c \in scope, id \in GivenIds : Ready /\ Riak_delete(1, c, id) /\ UNCHANGED <<url, web, heap, hist>>
    \/ \E c \in scope, id \in GivenIds : Ready /\ Riak_get(1, c, id) /\ UNCHANGED <<url, web, heap, hist>>
    \/ \E c \in scope : Ready /\ Riak_all_keys(1, c) /\ UNCHANGED <<url, web, heap, hist>>
    \/ \E c \in scope : Ready /\ Riak_all(1, c) /\ UNCHANGED <<url, web, heap, hist>>
    \/ \E s \in Slots : RiakLoad(s) /\ UNCHANGED <<url, web, heap, hist>>
    \/ \E s \in Slots : RiakSave(s) /\ UNCHANGED <<url, web, heap, hist>>
    \/ \E s \in Slots : RiakDelete(s) /\ UNCHANGED <<url, web, heap, hist>>
    \/ \E s \in Slots : RiakKeys(s) /\ UNCHANGED <<url, web, heap, hist>>
    \/ \E s \in Slots : RiakFetch(s) /\ UNCHANGED <<url, web, heap, hist>>
    \/ Return /\ UNCHANGED <<url, web, heap, hist>>

SpecId == Init /\ [][NextId]_vars

----------------------------------------------------------------------------
(* Specification: Collection instances.  The backend hands out an instance
   per call of get_store_collection / get_row_collection.  An in-memory
   instance keeps a reference (self._data) to the owner's dict of the
   backend; a Riak instance keeps the manager's proxy of the bucket. *)

MaxInstances == 3   \* Collection instances a run obtains

\* No dict and no instance yet: InMemoryCollectionBackend({}) after __init__
NoInstances ==
    [dicts |-> <<>>, stores |-> EmptyDict, rows |-> EmptyDict, insts |-> <<>>]

\* Mutant: the owner's dict is made anew at each call, not by setdefault.
Registry_always_new(h, c) ==
    [dicts |-> Append(h.dicts, EmptyDict),
     stores |-> IF c.kind = "store"
                THEN DictSet(h.stores, c.owner, Len(h.dicts) + 1) ELSE h.stores,
     rows |-> IF c.kind = "row"
              THEN DictSet(h.rows, c.owner, Len(h.dicts) + 1) ELSE h.rows,
     insts |-> h.insts]

\* self._stores['stores'].setdefault(owner_id, {}) and
\* self._stores['rows'].setdefault(owner_id, {}): the owner's dict is made
\* and registered when the owner has none.
Registry(h, c) ==
    LET reg == IF c.kind = "store" THEN h.stores ELSE h.rows
    IN  IF DictHas(reg, c.owner) THEN h
        ELSE [dicts |-> Append(h.dicts, EmptyDict),
              stores |-> IF c.kind = "store"
                         THEN DictSet(h.stores, c.owner, Len(h.dicts) + 1)
                         ELSE h.stores,
              rows |-> IF c.kind = "row"
                       THEN DictSet(h.rows, c.owner, Len(h.dicts) + 1)
                       ELSE h.rows,
              insts |-> h.insts]

\* get_store_collection / get_row_collection of the in-memory backend: the
\* instance wraps the dict the registry holds for the owner.
InMemoryCollectionBackend_get_collection(c) ==
    /\ backend = "inmemory"
    /\ Len(heap.insts) < MaxInstances
    /\ LET h == Registry(heap, c)
           reg == IF c.kind = "store" THEN h.stores ELSE h.rows
       IN  heap' = [h EXCEPT !.insts = Append(@, [coll |-> c, data |-> reg[c.owner]])]
    /\ UNCHANGED <<collVars, url, web, hist>>

\* get_store_collection / get_row_collection of the Riak backend: the
\* instance is made of the backend and the ids.
RiakCollectionBackend_get_collection(c) ==
    /\ backend = "riak"
    /\ Len(heap.insts) < MaxInstances
    /\ heap' = [heap EXCEPT !.insts = Append(@, [coll |-> c, data |-> 0])]
    /\ UNCHANGED <<collVars, url, web, hist>>

\* self._data of the in-memory instance i
InstData(h, i) == h.dicts[h.insts[i].data]

\* create, update, delete and get called on the in-memory instance i
Inst_create(i, object_id, data) ==
    /\ backend = "inmemory"
    /\ LET c == heap.insts[i].coll
           d2 == _set_data(InstData(heap, i), c, object_id, data)
       IN  /\ heap' = [heap EXCEPT !.dicts[heap.insts[i].data] = d2]
           /\ defer_async(1, [NewCall("create", c, Some(object_id), Some(data))
                  EXCEPT !.status = "ok",
                         !.obj = Some(_format_data(object_id,
                                          d2[_id_to_key(c, object_id)]))])
    /\ UNCHANGED <<scope, backend, mem, riak, uuids, url, web, hist>>

Inst_update(i, object_id, data) ==
    /\ backend = "inmemory"
    /\ LET c == heap.insts[i].coll
           d == InstData(heap, i)
           d2 == _set_data(d, c, object_id, data)
           r == NewCall("update", c, Some(object_id), Some(data))
       IN  IF ~update_asserts(d, c, Some(object_id))
           THEN Raise(1, r) /\ UNCHANGED heap
           ELSE /\ heap' = [heap EXCEPT !.dicts[heap.insts[i].data] = d2]
                /\ defer_async(1, [r EXCEPT !.status = "ok",
                       !.obj = Some(_format_data(object_id,
                                        d2[_id_to_key(c, object_id)]))])
    /\ UNCHANGED <<scope, backend, mem, riak, uuids, url, web, hist>>

Inst_delete(i, object_id) ==
    /\ backend = "inmemory"
    /\ LET c == heap.insts[i].coll
           d == InstData(heap, i)
       IN  /\ heap' = [heap EXCEPT !.dicts[heap.insts[i].data] =
                          DictPop(d, _id_to_key(c, object_id))]
           /\ defer_async(1, [NewCall("delete", c, Some(object_id), None)
                  EXCEPT !.status = "ok", !.obj = _get_data(d, c, object_id)])
    /\ UNCHANGED <<scope, backend, mem, riak, uuids, url, web, hist>>

Inst_get(i, object_id) ==
    /\ backend = "inmemory"
    /\ LET c == heap.insts[i].coll
       IN  defer_async(1, [NewCall("get", c, Some(object_id), None)
               EXCEPT !.status = "ok",
                      !.obj = _get_data(InstData(heap, i), c, object_id)])
    /\ UNCHANGED <<scope, backend, mem, riak, uuids, url, web, heap, hist>>

InitView ==
    /\ url = IdleUrl
    /\ web = IdleWeb
    /\ backend \in {"inmemory", "riak"}
    /\ mem = EmptyMem
    /\ riak = EmptyRiak
    /\ uuids = 0
    /\ calls = [s \in Slots |-> IdleCall]
    /\ reactor = <<>>
    /\ heap = NoInstances
    /\ hist = NoHist
    /\ last = IdleCall
    /\ scope \in Scopes

NextView ==
    \/ \E c \in scope : Ready /\ InMemoryCollectionBackend_get_collection(c)
    \/ \E c \in scope : Ready /\ RiakCollectionBackend_get_collection(c)
    \/ \E i \in 1..Len(heap.insts), id \in GivenIds, data \in Data :
           Ready /\ Inst_create(i, id, data)
    \/ \E i \in 1..Len(heap.insts), id \in GivenIds, data \in Data :
           Ready /\ Inst_update(i, id, data)
    \/ \E i \in 1..Len(heap.insts), id \in GivenIds : Ready /\ Inst_delete(i, id)
    \/ \E i \in 1..Len(heap.insts), id \in GivenIds : Ready /\ Inst_get(i, id)
    \/ Tick /\ UNCHANGED <<url, web, heap, hist>>
    \/ \E i \in 1..Len(heap.insts), id \in GivenIds, data \in Data :
           Ready /\ Riak_create(1, heap.insts[i].coll, Some(id), data)
                 /\ UNCHANGED <<url, web, heap, hist>>
    \/ \E i \in 1..Len(heap.insts), id \in GivenIds, data \in Data :
           Ready /\ Riak_update(1, heap.insts[i].coll, Some(id), data)
                 /\ UNCHANGED <<url, web, heap, hist>>
    \/ \E i \in 1..Len(heap.insts), id \in GivenIds :
           Ready /\ Riak_delete(1, heap.insts[i].coll, id)
                 /\ UNCHANGED <<url, web, heap, hist>>
    \/ \E i \in 1..Len(heap.insts), id \in GivenIds :
           Ready /\ Riak_get(1, heap.insts[i].coll, id)
                 /\ UNCHANGED <<url, web, heap, hist>>
    \/ \E s \in Slots : RiakLoad(s) /\ UNCHANGED <<url, web, heap, hist>>
    \/ \E s \in Slots : RiakSave(s) /\ UNCHANGED <<url, web, heap, hist>>
    \/ \E s \in Slots : RiakDelete(s) /\ UNCHANGED <<url, web, heap, hist>>
    \/ Return /\ UNCHANGED <<url, web, heap, hist>>

SpecView == InitView /\ [][NextView]_vars

\* What instance i answers to get(id) and all_keys() on the storage (h, b)
ViewOf(h, b, i) ==
    LET c == h.insts[i].coll
    IN  IF backend = "inmemory"
        THEN [gets |-> [id \in GivenIds |-> _get_data(InstData(h, i), c, id)],
              keys |-> _get_keys(InstData(h, i), c)]
        ELSE [gets |-> [id \in GivenIds |-> Riak_get_value(b, c, id)],
              keys |-> listed(mem, b, c)]

\* Instances of one scope answer alike, whenever they were obtained.
ViewsAgree ==
    \A i, j \in 1..Len(heap.insts) :
        heap.insts[i].coll = heap.insts[j].coll
            => ViewOf(heap, riak, i) = ViewOf(heap, riak, j)

\* Obtaining an instance leaves what every instance answers as it was.
FactoryPreserves ==
    Len(heap'.insts) > Len(heap.insts) =>
        \A i \in 1..Len(heap.insts) :
            ViewOf(heap', riak', i) = ViewOf(heap, riak, i)

\* C38: the instances the backend hands out for one scope are views of the
\* same storage: what was created, updated or deleted through one is seen
\* alike through every other, obtained before or after, and obtaining an
\* instance changes no stored object.
C38_StatelessViews == []ViewsAgree /\ [][FactoryPreserves]_vars

\* Two instances of one scope and an object that both answer.
C38_Witness ==
    /\ Len(heap.insts) >= 2
    /\ heap.insts[1].coll = heap.insts[2].coll
    /\ last.pc = "done" /\ last.op = "get" /\ ~IsNone(last.obj)
    /\ last.coll = heap.insts[1].coll
    /\ ViewOf(heap, riak, 2).keys # {}

----------------------------------------------------------------------------
(* Specification: the routes of StoreServer tried on request paths made of
   segments without "/" *)

MaxSegments == 5    \* segments of an enumerated request path

\* Owner, store and element ids, among them the empty id, ids that are the
\* routes' own words and an id with ':'
Segments == {<<>>, <<"o1">>, <<"stores">>, <<"keys">>, <<"s", ":", "t">>}

RECURSIVE PathOf(_)
\* The path "/seg1/seg2/..." of a sequence of segments
PathOf(segs) ==
    IF segs = <<>> THEN <<>>
    ELSE <<"/">> \o Head(segs) \o PathOf(Tail(segs))

SegmentPaths ==
    {PathOf(segs) : segs \in UNION {[1..n -> Segments] : n \in 1..MaxSegments}}

\* The routes whose pattern matches the path
MatchingRoutes(routes, path) ==
    {i \in 1..Len(routes) :
        /\ routes[i].compiled.ok
        /\ re_match(routes[i].compiled.toks, path, EmptyDict) # None}

\* The application tries its routes on the path of a request.
TryRoutes ==
    /\ url.pc = "path"
    /\ url' = [url EXCEPT !.pc = "tried",
                          !.matching = MatchingRoutes(web.routes, url.path),
                          !.handler = find_handler(web.routes, url.path)]
    /\ UNCHANGED <<collVars, web, heap, hist>>

InitMatch ==
    /\ url \in {[pc |-> "path", path |-> q, matching |-> {},
                 handler |-> find_handler(<<>>, q)] : q \in SegmentPaths}
    /\ web = IdleApi("StoreServer", _build_routes(StoreServer_collections))
    /\ backend = "inmemory"
    /\ mem = EmptyMem
    /\ riak = EmptyRiak
    /\ uuids = 0
    /\ calls = [s \in Slots |-> IdleCall]
    /\ reactor = <<>>
    /\ heap = NoHeap
    /\ hist = NoHist
    /\ last = IdleCall
    /\ scope = {}

NextMatch == TryRoutes

SpecMatch == InitMatch /\ [][NextMatch]_vars

\* C39: a request path whose segments hold no "/" matches at most one of the
\* four routes of StoreServer, and that route is the one that serves it.
C39_DeterministicRouting ==
    url.pc = "tried" =>
        /\ Len(web.routes) = 4
        /\ Cardinality(url.matching) <= 1
        /\ url.handler.found <=> url.matching # {}
        /\ \A i \in url.matching : url.handler.spec = web.routes[i]

\* A row collection's path whose store id is the word "stores" and whose
\* owner id is the word "keys" is matched by one route.
C39_Witness ==
    /\ url.pc = "tried"
    /\ url.path = <<"/", "keys", "/", "stores", "/", "stores", "/", "keys">>
    /\ url.matching = {3}

====
